---- MODULE Spec2Model ----
(***************************************************************************)
(* A model of the xochimilco Session (X3DH handshake + Double Ratchet),    *)
(* its wire envelopes and the skipped-key buffer of go-ratchet.            *)
(*                                                                         *)
(* Representation.  Keys are symbolic: a keypair is a positive integer,    *)
(* used both as its public and as its private half; 0 is a nil key.        *)
(* Derived symmetric keys (root, chain, message keys) are sequences of     *)
(* integers, << >> being the absent key.  UUIDs and plaintexts are real    *)
(* byte sequences.  An envelope is the record of the parts of the string   *)
(* "!RAT!" digit body "!CHT!"; the body is the record of the fixed-width   *)
(* fields of the binary payload.  A pointer that may be nil is a sequence  *)
(* of length 0 or 1.                                                       *)
(***************************************************************************)
EXTENDS Integers, Sequences, FiniteSets, TLC

VARIABLES sess, wire, rd, nextKey, last, restored, keyBuf, kbNext, kbLast,
          disk, names, clientLast, codec, locker, callers, mgr, mgrLast, pager,
          svc

vars == <<sess, wire, rd, nextKey, last, restored, keyBuf, kbNext, kbLast,
          disk, names, clientLast, codec, locker, callers, mgr, mgrLast, pager,
          svc>>

\* the variables of the two bare sessions, of the key buffer taken by itself,
\* of the two clients with their session stores, of the envelope codec and
\* of the value locker with its callers, of the session managers with their
\* index files, of the pager over a log, of the interactive service
sessVars == <<sess, wire, rd, nextKey, last, restored>>
kbVars == <<keyBuf, kbNext, kbLast>>
clientVars == <<disk, names, clientLast>>
codecVars == <<codec>>
lockVars == <<locker, callers>>
mgrVars == <<mgr, mgrLast>>
pagerVars == <<pager>>
svcVars == <<svc>>

(***************************************************************************)
(* Bounds of the model.                                                    *)
(***************************************************************************)
\* most envelopes ever put on the wire when calls are made in any order
MaxWire == 3
\* most envelopes ever put on the wire in the ordered exchange
MaxOrdWire == 5
\* most DH publics ever inserted into the key buffer taken by itself
MaxKbPubs == 10
\* most message keys inserted under the first DH public
MaxChainKeys == 33
MaxAgain == 1
\* most envelopes ever put on the wire in the ordered exchange with restarts
MaxRestartWire == 5
\* most envelopes ever posted by the two clients
MaxClientWire == 4
\* most keypairs and ULIDs ever generated by the two clients
MaxClientKeys == 6
\* the calls of Use one caller makes
MaxUses == 2
\* most ULIDs one session manager ever makes
MaxMade == 2
\* most times one session manager is closed
MaxCloses == 2
\* the longest log the pager is asked about
MaxLog == 4
\* the largest position and count, of either sign, the pager is asked for
MaxPage == 6

(***************************************************************************)
(* Program constants.                                                      *)
(***************************************************************************)
sessOffer == 1
sessAck == 2
sessData == 3
sessClose == 4
sessSealed == 5
Prefix == "!RAT!"
Suffix == "!CHT!"
maxSkipChains == 8
maxSkipElements == 32
\* width of a session UUID / ULID in bytes
UUIDLen == 16
\* bytes of a ULID that hold the timestamp
ULIDTimeLen == 6

Parties == {"alice", "bob"}
Other(p) == IF p = "alice" THEN "bob" ELSE "alice"

\* long-term identity keypairs of the two parties
IdKey(p) == IF p = "alice" THEN 1 ELSE 2
FirstKey == Cardinality(Parties) + 1
\* the first DH public given to the key buffer taken by itself
FirstPub == FirstKey

\* the session UUIDs of the seed scenario: 16 zero bytes, and 0x01 0x00 ...
UUIDOf(p) == [i \in 1..UUIDLen |-> IF p = "bob" /\ i = 1 THEN 1 ELSE 0]

Hello == <<104, 105>>
Plaintexts == {Hello, <<121, 111>>}
Min(S) == CHOOSE x \in S : \A y \in S : x <= y
Times == {1, 258}
SealKeys == {IdKey("bob")}

\* make([]byte, n) followed by copy(dst, src)
Copy(src, n) == [i \in 1..n |-> IF i <= Len(src) THEN src[i] ELSE 0]

(***************************************************************************)
(* Skipped-key buffer: a ring of maxSkipChains slots and the slot the      *)
(* buffer currently points at.  A slot is << >> (nil Value) or             *)
(* << [dhPub, msgKeys] >>.                                                 *)
(***************************************************************************)
newKeyBuffer == [slots |-> [i \in 1..maxSkipChains |-> << >>], cur |-> 1]

RingPrev(i) == IF i = 1 THEN maxSkipChains ELSE i - 1

\* the slot visited at step n (0-based) of ring.Do, which starts at cur
RingAt(kb, n) == ((kb.cur - 1 + n) % maxSkipChains) + 1

\* elementFind: index of the last slot in Do order whose dhPub matches, 0 if
\* there is none
RECURSIVE elementFindFrom(_, _, _, _)
elementFindFrom(kb, dhPub, n, found) ==
  IF n = maxSkipChains THEN found
  ELSE LET i == RingAt(kb, n)
           e == kb.slots[i]
       IN elementFindFrom(kb, dhPub, n + 1,
            IF e # << >> /\ e[1].dhPub = dhPub THEN i ELSE found)

elementFind(kb, dhPub) == elementFindFrom(kb, dhPub, 0, 0)

\* variant: the new element is written where the buffer points, without
\* stepping back first
elementAdd_InPlace(kb, dhPub) ==
  [slots |-> [kb.slots EXCEPT ![kb.cur] = << [dhPub |-> dhPub, msgKeys |-> << >>] >>],
   cur |-> kb.cur]

elementAdd(kb, dhPub) ==
  LET c == RingPrev(kb.cur)
  IN [slots |-> [kb.slots EXCEPT ![c] = << [dhPub |-> dhPub, msgKeys |-> << >>] >>],
      cur |-> c]

\* msgKeys is a map msgNo -> key, kept as a function on a set of numbers;
\* << >> is the empty map
EmptyMap == [x \in {} |-> 0]
MapHas(m, n) == n \in DOMAIN m
MapDel(m, n) == [x \in (DOMAIN m) \ {n} |-> m[x]]
MapPut(m, n, v) == [x \in (DOMAIN m) \cup {n} |-> IF x = n THEN v ELSE m[x]]

find(kb, dhPub, msgNo) ==
  LET i == elementFind(kb, dhPub)
  IN IF i = 0 THEN [ok |-> FALSE, msgKey |-> << >>]
     ELSE IF ~MapHas(kb.slots[i][1].msgKeys, msgNo) THEN [ok |-> FALSE, msgKey |-> << >>]
     ELSE [ok |-> TRUE, msgKey |-> kb.slots[i][1].msgKeys[msgNo]]

\* variant: a new element is added whether or not the public has one
insert_AlwaysAdd(kb, dhPub, msgNo, msgKey) ==
  LET kb1 == elementAdd(kb, dhPub)
      i == elementFind(kb1, dhPub)
      e == kb1.slots[i][1]
  IN [kb1 EXCEPT !.slots[i] = << [e EXCEPT !.msgKeys = MapPut(e.msgKeys, msgNo, msgKey)] >>]

insert(kb, dhPub, msgNo, msgKey) ==
  LET kb1 == IF elementFind(kb, dhPub) = 0 THEN elementAdd(kb, dhPub) ELSE kb
      i == elementFind(kb1, dhPub)
      e == kb1.slots[i][1]
  IN [kb1 EXCEPT !.slots[i] = << [e EXCEPT !.msgKeys = MapPut(e.msgKeys, msgNo, msgKey)] >>]

(***************************************************************************)
(* Primitives.  DH is commutative in the two keypairs; the KDFs are        *)
(* injective term constructors.                                            *)
(***************************************************************************)
DH(priv, pub) == IF priv <= pub THEN <<priv, pub>> ELSE <<pub, priv>>

\* root chain: new root key and a fresh chain key from (root key, DH output)
rootKdf(rk, dhOut) ==
  [rootKey |-> rk \o <<-1>> \o dhOut, chainKey |-> rk \o <<-2>> \o dhOut]

\* message chain: chain_key_{n+1} and msg_key_n from chain_key_n
chainKdf(ck) == [chainKey |-> ck \o <<-3>>, msgKey |-> ck \o <<-4>>]

\* Ed25519: a signature names its signer and the signed message
Sign(idKey, msg) == <<idKey, msg>>
Verify(pub, msg, sig) == sig = <<pub, msg>>

(***************************************************************************)
(* X3DH.                                                                   *)
(***************************************************************************)
CreateNewSpk(idKey, k) ==
  [spkPub |-> k, spkPriv |-> k, spkSig |-> Sign(idKey, k)]

x3dhKdf(dh1, dh2, dh3) == <<-9>> \o dh1 \o dh2 \o dh3

\* responder side; ek is the fresh ephemeral keypair
CreateInitialMessage(idKey, peerIdKey, spkPub, spkSig, ek) ==
  IF ~Verify(peerIdKey, spkPub, spkSig)
  THEN [ok |-> FALSE, sessKey |-> << >>, associatedData |-> << >>, ekPub |-> 0]
  ELSE [ok |-> TRUE,
        sessKey |-> x3dhKdf(DH(idKey, spkPub), DH(ek, peerIdKey), DH(ek, spkPub)),
        associatedData |-> <<peerIdKey, idKey>>,
        ekPub |-> ek]

\* offerer side
ReceiveInitialMessage(idKey, peerIdKey, spkPriv, ekPub) ==
  [ok |-> TRUE,
   sessKey |-> x3dhKdf(DH(spkPriv, peerIdKey), DH(idKey, ekPub), DH(spkPriv, ekPub)),
   associatedData |-> <<idKey, peerIdKey>>]

(***************************************************************************)
(* Double Ratchet.                                                         *)
(***************************************************************************)
\* active mode (responder to an Offer); k is the fresh local keypair
CreateActive(sessKey, associatedData, peerDhPub, k) ==
  LET r == rootKdf(sessKey, DH(k, peerDhPub))
  IN [associatedData |-> associatedData,
      dhr |-> [rootKey |-> r.rootKey, dhPub |-> k, dhPriv |-> k,
               peerDhPub |-> peerDhPub, isActive |-> TRUE, isInitialized |-> TRUE],
      peerDhPub |-> peerDhPub,
      chainKeySend |-> r.chainKey, chainKeyRecv |-> << >>,
      sendNo |-> 0, recvNo |-> 0, prevSendNo |-> 0,
      msgKeyBuffer |-> newKeyBuffer]

\* passive mode (the original offerer): no peer public, no chains yet
CreatePassive(sessKey, associatedData, dhPub, dhPriv) ==
  [associatedData |-> associatedData,
   dhr |-> [rootKey |-> sessKey, dhPub |-> dhPub, dhPriv |-> dhPriv,
            peerDhPub |-> 0, isActive |-> FALSE, isInitialized |-> FALSE],
   peerDhPub |-> 0,
   chainKeySend |-> << >>, chainKeyRecv |-> << >>,
   sendNo |-> 0, recvNo |-> 0, prevSendNo |-> 0,
   msgKeyBuffer |-> newKeyBuffer]

Encrypt(dr, plaintext) ==
  IF dr.chainKeySend = << >>
  THEN [ok |-> FALSE, dr |-> dr, ciphertext |-> << >>]
  ELSE LET c == chainKdf(dr.chainKeySend)
           header == [dhPub |-> dr.dhr.dhPub, prevNo |-> dr.prevSendNo, msgNo |-> dr.sendNo]
       IN [ok |-> TRUE,
           dr |-> [dr EXCEPT !.chainKeySend = c.chainKey, !.sendNo = dr.sendNo + 1],
           ciphertext |-> << [header |-> header, key |-> c.msgKey,
                              ad |-> dr.associatedData, pt |-> plaintext] >>]

\* derive and store the keys of the receiving chain for recvNo .. until-1
RECURSIVE skipLoop(_, _)
skipLoop(dr, until) ==
  IF dr.recvNo >= until THEN dr
  ELSE LET c == chainKdf(dr.chainKeyRecv)
       IN skipLoop([dr EXCEPT !.chainKeyRecv = c.chainKey,
                               !.recvNo = dr.recvNo + 1,
                               !.msgKeyBuffer = insert(dr.msgKeyBuffer, dr.peerDhPub,
                                                       dr.recvNo, c.msgKey)],
                   until)

skipMessageKeys(dr, until) ==
  IF dr.chainKeyRecv = << >> THEN [ok |-> TRUE, dr |-> dr]
  ELSE IF until - dr.recvNo > maxSkipElements THEN [ok |-> FALSE, dr |-> dr]
  ELSE [ok |-> TRUE, dr |-> skipLoop(dr, until)]

\* DH step: close the sending chain, open the receiving chain with the
\* current local private, generate keypair k, open the new sending chain
dhStep(dr, newPeerPub, k) ==
  LET r1 == rootKdf(dr.dhr.rootKey, DH(dr.dhr.dhPriv, newPeerPub))
      r2 == rootKdf(r1.rootKey, DH(k, newPeerPub))
  IN [dr EXCEPT !.prevSendNo = dr.sendNo, !.sendNo = 0, !.recvNo = 0,
                !.peerDhPub = newPeerPub,
                !.dhr = [rootKey |-> r2.rootKey, dhPub |-> k, dhPriv |-> k,
                         peerDhPub |-> newPeerPub,
                         isActive |-> dr.dhr.isActive, isInitialized |-> TRUE],
                !.chainKeyRecv = r1.chainKey,
                !.chainKeySend = r2.chainKey]

\* remove a used message key from the buffer
discardKey(kb, dhPub, msgNo) ==
  LET i == elementFind(kb, dhPub)
      e == kb.slots[i][1]
  IN [kb EXCEPT !.slots[i] =
        << [e EXCEPT !.msgKeys = [x \in (DOMAIN e.msgKeys) \ {msgNo} |-> e.msgKeys[x]]] >>]

\* AEAD open: the key and the associated data must be those of the sealing
aeadOpen(msgKey, ad, ct) == msgKey = ct.key /\ ad = ct.ad

\* ciphertext is << ct >>; k is the keypair a DH step would generate.
\* The ratchet state is committed only if the message authenticates.
Decrypt(dr, ciphertext, k) ==
  LET ct == ciphertext[1]
      h == ct.header
      f == find(dr.msgKeyBuffer, h.dhPub, h.msgNo)
      fail == [ok |-> FALSE, dr |-> dr, plaintext |-> << >>, stepped |-> FALSE]
  IN IF f.ok
     THEN IF aeadOpen(f.msgKey, dr.associatedData, ct)
          THEN [ok |-> TRUE,
                dr |-> [dr EXCEPT !.msgKeyBuffer = discardKey(dr.msgKeyBuffer, h.dhPub, h.msgNo)],
                plaintext |-> ct.pt, stepped |-> FALSE]
          ELSE fail
     ELSE LET step == h.dhPub # dr.peerDhPub
              s1 == IF step THEN skipMessageKeys(dr, h.prevNo) ELSE [ok |-> TRUE, dr |-> dr]
              d1 == IF step THEN dhStep(s1.dr, h.dhPub, k) ELSE dr
              s2 == skipMessageKeys(d1, h.msgNo)
          IN IF ~s1.ok \/ ~s2.ok \/ s2.dr.chainKeyRecv = << >> THEN fail
             ELSE LET c == chainKdf(s2.dr.chainKeyRecv)
                      d3 == [s2.dr EXCEPT !.chainKeyRecv = c.chainKey,
                                          !.recvNo = s2.dr.recvNo + 1]
                  IN IF aeadOpen(c.msgKey, dr.associatedData, ct) /\ s2.dr.recvNo = h.msgNo
                     THEN [ok |-> TRUE, dr |-> d3, plaintext |-> ct.pt, stepped |-> step]
                     ELSE fail

(***************************************************************************)
(* Envelopes.  A payload ("body") is the record of its fixed-width fields; *)
(* cipher and payload fields are << >> (no bytes) or << ct >>.             *)
(***************************************************************************)
offerMarshalBinary(msg) ==
  [idKey |-> msg.idKey, spKey |-> msg.spKey, spSig |-> msg.spSig,
   uuid |-> Copy(msg.uuid, UUIDLen), nick |-> msg.nick]

offerUnmarshalBinary(data) ==
  [err |-> FALSE,
   m |-> [idKey |-> data.idKey, spKey |-> data.spKey, spSig |-> data.spSig,
          uuid |-> data.uuid, nick |-> data.nick]]

ackMarshalBinary(msg) ==
  [idKey |-> msg.idKey, eKey |-> msg.eKey, uuid |-> Copy(msg.uuid, UUIDLen),
   cipher |-> msg.cipher]

\* len(data) <= 80 is an empty cipher field
ackUnmarshalBinary(data) ==
  [err |-> Len(data.cipher) = 0,
   m |-> [idKey |-> data.idKey, eKey |-> data.eKey, uuid |-> data.uuid,
          cipher |-> data.cipher]]

dataMarshalBinary(msg) ==
  [uuid |-> Copy(msg.uuid, UUIDLen), payload |-> msg.payload]

dataUnmarshalBinary(data) ==
  [err |-> Len(data.payload) = 0,
   m |-> [uuid |-> data.uuid, payload |-> data.payload]]

\* variant: the UUID is appended as it is instead of copied into 16 bytes
closeMarshalBinary_Unpadded(msg) ==
  [uuid |-> msg.uuid, payload |-> msg.payload]

closeMarshalBinary(msg) ==
  [uuid |-> Copy(msg.uuid, UUIDLen), payload |-> msg.payload]

closeUnmarshalBinary(data) ==
  [err |-> Len(data.payload) = 0 \/ data.payload # <<255>>,
   m |-> [uuid |-> data.uuid, payload |-> data.payload]]

\* the anonymous box of (type digit || inner payload) for the key k
Seal(t, data, k) == [to |-> k, digit |-> t, data |-> data]

sealedUnmarshalBinary(data) == [err |-> FALSE, m |-> data]

marshalMessage(t, data) ==
  [prefix |-> Prefix, t |-> t, body |-> data, suffix |-> Suffix]

container(t) == t \in {sessOffer, sessAck, sessData, sessClose, sessSealed}

unmarshalMessage(in) ==
  IF in.prefix # Prefix \/ in.suffix # Suffix \/ ~container(in.t)
  THEN [err |-> TRUE, t |-> 0, m |-> << >>]
  ELSE LET u == CASE in.t = sessOffer -> offerUnmarshalBinary(in.body)
                  [] in.t = sessAck -> ackUnmarshalBinary(in.body)
                  [] in.t = sessData -> dataUnmarshalBinary(in.body)
                  [] in.t = sessClose -> closeUnmarshalBinary(in.body)
                  [] OTHER -> sealedUnmarshalBinary(in.body)
       IN [err |-> u.err, t |-> in.t, m |-> u.m]

\* ulid.SetTime: the first six bytes become the big-endian millisecond time
\* n >> (8 * k)
RECURSIVE ShiftBytes(_, _)
ShiftBytes(n, k) == IF k = 0 THEN n ELSE ShiftBytes(n \div 256, k - 1)

\* a variant that writes the time into the last six bytes
encTime_Tail(in, now) ==
  [i \in 1..UUIDLen |->
     IF i > UUIDLen - ULIDTimeLen THEN ShiftBytes(now, UUIDLen - i) % 256
     ELSE Copy(in, UUIDLen)[i]]

encTime(in, now) ==
  [i \in 1..UUIDLen |->
     IF i <= ULIDTimeLen THEN ShiftBytes(now, ULIDTimeLen - i) % 256
     ELSE Copy(in, UUIDLen)[i]]

(***************************************************************************)
(* Session.  The outcome of an operation is a record: the session after    *)
(* it, res in {"ok", "error", "panic"}, the returned values, the envelope  *)
(* produced (out) and the number of keypairs generated (keys).             *)
(***************************************************************************)
NewSession(p) ==
  [LocalUUID |-> UUIDOf(p), RemoteUUID |-> << >>, Me |-> p,
   IdentityKey |-> IdKey(p), VerifyPeer |-> IdKey(Other(p)),
   spkPub |-> 0, spkPriv |-> 0, doubleRatchet |-> << >>]

Active(s) == s.doubleRatchet # << >>

VerifyPeer(s, peer) == peer = s.VerifyPeer

Result(s, res) ==
  [sess |-> s, res |-> res, isEstablished |-> FALSE, isClosed |-> FALSE,
   plaintext |-> << >>, out |-> << >>, keys |-> 0]

\* what an X3DH primitive does when handed a nil key is not fixed: it returns
\* an error, aborts, or lets the key through and computes on
NilKeyOutcomes == {"error", "panic", "through"}
NilKeyRes(o) == IF o = "error" THEN "error" ELSE "panic"
\* the outcomes to consider for a call on session s
OutcomesFor(s) == IF s.IdentityKey = 0 \/ s.spkPriv = 0 THEN NilKeyOutcomes ELSE {"error"}

initialPayloadLen == 23

\* createOffer; the result's out is the offerMessage, not yet an envelope.
\* With a nil IdentityKey, CreateNewSpk fails or IdentityKey.Public() aborts
\* after the SPK was stored.
createOffer(s, k, o) ==
  IF s.IdentityKey = 0
  THEN IF o = "through"
       THEN [Result([s EXCEPT !.spkPub = k, !.spkPriv = k], "panic") EXCEPT !.keys = 1]
       ELSE Result(s, NilKeyRes(o))
  ELSE LET spk == CreateNewSpk(s.IdentityKey, k)
           s1 == [s EXCEPT !.spkPub = spk.spkPub, !.spkPriv = spk.spkPriv]
       IN [Result(s1, "ok") EXCEPT
             !.keys = 1,
             !.out = << [uuid |-> s.LocalUUID, nick |-> s.Me, idKey |-> s.IdentityKey,
                         spKey |-> spk.spkPub, spSig |-> spk.spkSig] >>]

Offer(s, k, o) ==
  LET r == createOffer(s, k, o)
  IN IF r.res # "ok" THEN r
     ELSE [r EXCEPT !.out = << marshalMessage(sessOffer, offerMarshalBinary(r.out[1])) >>]

OfferSealed(s, sealKey, k, o) ==
  LET r == createOffer(s, k, o)
  IN IF r.res # "ok" THEN r
     ELSE [r EXCEPT !.out =
             << marshalMessage(sessSealed,
                               Seal(sessOffer, offerMarshalBinary(r.out[1]), sealKey)) >>]

\* variant: the identity key of the Offer is not put to VerifyPeer
receiveOffer_NoVerify(s, offer, k, o) ==
  IF s.IdentityKey = 0 /\ o # "through" THEN Result(s, NilKeyRes(o))
  ELSE
    LET x == CreateInitialMessage(s.IdentityKey, offer.idKey, offer.spKey, offer.spSig, k)
    IN IF ~x.ok THEN Result(s, "error")
       ELSE
         LET dr == CreateActive(x.sessKey, x.associatedData, offer.spKey, k + 1)
             s1 == [s EXCEPT !.RemoteUUID = offer.uuid]
             initialPayload == [i \in 1..initialPayloadLen |->
                                  IF i <= UUIDLen THEN Copy(s.LocalUUID, UUIDLen)[i] ELSE k % 256]
             e == Encrypt(dr, initialPayload)
             ack == [idKey |-> s.IdentityKey, eKey |-> x.ekPub,
                     cipher |-> e.ciphertext, uuid |-> s1.RemoteUUID]
         IN IF ~e.ok
            THEN [Result([s1 EXCEPT !.doubleRatchet = <<dr>>], "error") EXCEPT !.keys = 2]
            ELSE IF s.IdentityKey = 0
            THEN [Result([s1 EXCEPT !.doubleRatchet = <<e.dr>>], "panic") EXCEPT !.keys = 2]
            ELSE [Result([s1 EXCEPT !.doubleRatchet = <<e.dr>>, !.IdentityKey = 0], "ok")
                    EXCEPT !.isEstablished = TRUE,
                           !.out = << marshalMessage(sessAck, ackMarshalBinary(ack)) >>,
                           !.keys = 2]

\* With a nil IdentityKey the call cannot succeed: x3dh fails or, if it lets
\* the nil key through, IdentityKey.Public() aborts after the session was
\* written.
receiveOffer(s, offer, k, o) ==
  IF ~VerifyPeer(s, offer.idKey) THEN Result(s, "error")
  ELSE IF s.IdentityKey = 0 /\ o # "through" THEN Result(s, NilKeyRes(o))
  ELSE
    LET x == CreateInitialMessage(s.IdentityKey, offer.idKey, offer.spKey, offer.spSig, k)
    IN IF ~x.ok THEN Result(s, "error")
       ELSE
         LET dr == CreateActive(x.sessKey, x.associatedData, offer.spKey, k + 1)
             s1 == [s EXCEPT !.RemoteUUID = offer.uuid]
             initialPayload == [i \in 1..initialPayloadLen |->
                                  IF i <= UUIDLen THEN Copy(s.LocalUUID, UUIDLen)[i] ELSE k % 256]
             e == Encrypt(dr, initialPayload)
             ack == [idKey |-> s.IdentityKey, eKey |-> x.ekPub,
                     cipher |-> e.ciphertext, uuid |-> s1.RemoteUUID]
         IN IF ~e.ok
            THEN [Result([s1 EXCEPT !.doubleRatchet = <<dr>>], "error") EXCEPT !.keys = 2]
            ELSE IF s.IdentityKey = 0
            THEN [Result([s1 EXCEPT !.doubleRatchet = <<e.dr>>], "panic") EXCEPT !.keys = 2]
            ELSE [Result([s1 EXCEPT !.doubleRatchet = <<e.dr>>, !.IdentityKey = 0], "ok")
                    EXCEPT !.isEstablished = TRUE,
                           !.out = << marshalMessage(sessAck, ackMarshalBinary(ack)) >>,
                           !.keys = 2]

\* variant: the remote UUID is taken from the Ack's UUID field instead of the
\* decrypted initial payload
receiveAck_UuidFromEnvelope(s, ack, k, o) ==
  IF s.doubleRatchet # << >> THEN Result(s, "error")
  ELSE IF ~VerifyPeer(s, ack.idKey) THEN Result(s, "error")
  ELSE
    LET x == ReceiveInitialMessage(s.IdentityKey, ack.idKey, s.spkPriv, ack.eKey)
    IN IF (s.IdentityKey = 0 \/ s.spkPriv = 0) /\ o # "through"
       THEN Result(s, NilKeyRes(o))
       ELSE
         LET dr == CreatePassive(x.sessKey, x.associatedData, s.spkPub, s.spkPriv)
             s1 == [s EXCEPT !.doubleRatchet = <<dr>>, !.spkPub = 0, !.spkPriv = 0]
             d == Decrypt(dr, ack.cipher, k)
         IN IF ~d.ok THEN Result([s1 EXCEPT !.doubleRatchet = <<d.dr>>], "error")
            ELSE [Result([s1 EXCEPT !.doubleRatchet = <<d.dr>>,
                                    !.RemoteUUID = ack.uuid,
                                    !.IdentityKey = 0], "ok")
                    EXCEPT !.isEstablished = TRUE, !.keys = 1]

receiveAck(s, ack, k, o) ==
  IF s.doubleRatchet # << >> THEN Result(s, "error")
  ELSE IF ~VerifyPeer(s, ack.idKey) THEN Result(s, "error")
  ELSE
    LET x == ReceiveInitialMessage(s.IdentityKey, ack.idKey, s.spkPriv, ack.eKey)
    IN IF (s.IdentityKey = 0 \/ s.spkPriv = 0) /\ o # "through"
       THEN Result(s, NilKeyRes(o))
       ELSE
         LET dr == CreatePassive(x.sessKey, x.associatedData, s.spkPub, s.spkPriv)
             s1 == [s EXCEPT !.doubleRatchet = <<dr>>, !.spkPub = 0, !.spkPriv = 0]
             d == Decrypt(dr, ack.cipher, k)
         IN IF ~d.ok THEN Result([s1 EXCEPT !.doubleRatchet = <<d.dr>>], "error")
            ELSE IF Len(d.plaintext) < UUIDLen
            THEN [Result([s1 EXCEPT !.doubleRatchet = <<d.dr>>], "panic") EXCEPT !.keys = 1]
            ELSE [Result([s1 EXCEPT !.doubleRatchet = <<d.dr>>,
                                    !.RemoteUUID = SubSeq(d.plaintext, 1, UUIDLen),
                                    !.IdentityKey = 0], "ok")
                    EXCEPT !.isEstablished = TRUE, !.keys = 1]

\* variant: no check that a Double Ratchet exists; Decrypt on the nil
\* pointer aborts
receiveData_NoGuard(s, data, k) ==
  IF s.doubleRatchet = << >> THEN Result(s, "panic")
  ELSE LET d == Decrypt(s.doubleRatchet[1], data.payload, k)
       IN IF ~d.ok THEN Result([s EXCEPT !.doubleRatchet = <<d.dr>>], "error")
          ELSE [Result([s EXCEPT !.doubleRatchet = <<d.dr>>], "ok")
                  EXCEPT !.plaintext = d.plaintext,
                         !.keys = IF d.stepped THEN 1 ELSE 0]

\* variant: a Data message that fails to decrypt tears the session down
receiveData_TearsDown(s, data, k) ==
  IF s.doubleRatchet = << >> THEN Result(s, "error")
  ELSE LET d == Decrypt(s.doubleRatchet[1], data.payload, k)
       IN IF ~d.ok THEN Result([s EXCEPT !.doubleRatchet = << >>], "error")
          ELSE [Result([s EXCEPT !.doubleRatchet = <<d.dr>>], "ok")
                  EXCEPT !.plaintext = d.plaintext,
                         !.keys = IF d.stepped THEN 1 ELSE 0]

receiveData(s, data, k) ==
  IF s.doubleRatchet = << >> THEN Result(s, "error")
  ELSE LET d == Decrypt(s.doubleRatchet[1], data.payload, k)
       IN IF ~d.ok THEN Result([s EXCEPT !.doubleRatchet = <<d.dr>>], "error")
          ELSE [Result([s EXCEPT !.doubleRatchet = <<d.dr>>], "ok")
                  EXCEPT !.plaintext = d.plaintext,
                         !.keys = IF d.stepped THEN 1 ELSE 0]

\* variant: the plaintext of a Data message is not returned
ReceiveMsg_DropsPlaintext(s, t, m, k, o) ==
  CASE t = sessOffer -> receiveOffer(s, m, k, o)
    [] t = sessAck -> receiveAck(s, m, k, o)
    [] t = sessData -> [receiveData(s, m, k) EXCEPT !.plaintext = << >>]
    [] t = sessClose -> [Result(s, "ok") EXCEPT !.isClosed = TRUE]
    [] OTHER -> Result(s, "error")

\* variant: a Close envelope resets the receiving session
ReceiveMsg_CloseResets(s, t, m, k, o) ==
  CASE t = sessOffer -> receiveOffer(s, m, k, o)
    [] t = sessAck -> receiveAck(s, m, k, o)
    [] t = sessData -> receiveData(s, m, k)
    [] t = sessClose ->
         [Result([s EXCEPT !.spkPub = 0, !.spkPriv = 0, !.doubleRatchet = << >>], "ok")
            EXCEPT !.isClosed = TRUE]
    [] OTHER -> Result(s, "error")

\* variant: a Close envelope resets an active session and is an error for a
\* session that is not active
ReceiveMsg_CloseOnce(s, t, m, k, o) ==
  CASE t = sessOffer -> receiveOffer(s, m, k, o)
    [] t = sessAck -> receiveAck(s, m, k, o)
    [] t = sessData -> receiveData(s, m, k)
    [] t = sessClose ->
         IF s.doubleRatchet = << >> THEN Result(s, "error")
         ELSE [Result([s EXCEPT !.doubleRatchet = << >>], "ok") EXCEPT !.isClosed = TRUE]
    [] OTHER -> Result(s, "error")

\* on an Offer the returned plaintext is the Ack string; it is kept in out
ReceiveMsg(s, t, m, k, o) ==
  CASE t = sessOffer -> receiveOffer(s, m, k, o)
    [] t = sessAck -> receiveAck(s, m, k, o)
    [] t = sessData -> receiveData(s, m, k)
    [] t = sessClose -> [Result(s, "ok") EXCEPT !.isClosed = TRUE]
    [] OTHER -> Result(s, "error")

Receive(s, in, k, o) ==
  LET u == unmarshalMessage(in)
  IN IF u.err THEN Result(s, "error") ELSE ReceiveMsg(s, u.t, u.m, k, o)

Acknowledge(s, in, k, o) ==
  LET u == unmarshalMessage(in)
  IN IF u.err \/ u.t # sessOffer THEN Result(s, "error")
     ELSE [receiveOffer(s, u.m, k, o) EXCEPT !.isEstablished = FALSE]

\* variant: no check that a Double Ratchet exists; Encrypt on the nil
\* pointer aborts
Send_NoGuard(s, plaintext, now) ==
  IF s.doubleRatchet = << >> THEN Result(s, "panic")
  ELSE LET e == Encrypt(s.doubleRatchet[1], plaintext)
       IN IF ~e.ok THEN Result(s, "error")
          ELSE [Result([s EXCEPT !.doubleRatchet = <<e.dr>>], "ok") EXCEPT
                  !.out = << marshalMessage(sessData,
                               dataMarshalBinary([uuid |-> encTime(s.RemoteUUID, now),
                                                  payload |-> e.ciphertext])) >>]

Send(s, plaintext, now) ==
  IF s.doubleRatchet = << >> THEN Result(s, "error")
  ELSE LET e == Encrypt(s.doubleRatchet[1], plaintext)
       IN IF ~e.ok THEN Result(s, "error")
          ELSE [Result([s EXCEPT !.doubleRatchet = <<e.dr>>], "ok") EXCEPT
                  !.out = << marshalMessage(sessData,
                               dataMarshalBinary([uuid |-> encTime(s.RemoteUUID, now),
                                                  payload |-> e.ciphertext])) >>]

Close(s) ==
  [Result([s EXCEPT !.spkPub = 0, !.spkPriv = 0, !.doubleRatchet = << >>], "ok") EXCEPT
     !.out = << marshalMessage(sessClose,
                  closeMarshalBinary([uuid |-> s.RemoteUUID, payload |-> <<255>>])) >>]

(***************************************************************************)
(* Persistence.  A serialized value is the record of the fields that the   *)
(* encoder writes, under the names it writes them; a byte string that may  *)
(* be empty is a sequence of length 0 or 1.                                *)
(***************************************************************************)
dhrMarshalBinary(dhr) ==
  [RootKey |-> dhr.rootKey, DhPub |-> dhr.dhPub, DhPriv |-> dhr.dhPriv,
   PeerDhPub |-> dhr.peerDhPub, IsActive |-> dhr.isActive,
   IsInitialized |-> dhr.isInitialized]

dhrUnmarshalBinary(o) ==
  [rootKey |-> o.RootKey, dhPub |-> o.DhPub, dhPriv |-> o.DhPriv,
   peerDhPub |-> o.PeerDhPub, isActive |-> o.IsActive,
   isInitialized |-> o.IsInitialized]

elementMarshalBinary(kbe) == [DhPub |-> kbe.dhPub, MsgKeys |-> kbe.msgKeys]

elementUnmarshalBinary(o) == [dhPub |-> o.DhPub, msgKeys |-> o.MsgKeys]

\* the elements of the ring in Do order, from step n on
RECURSIVE kbList(_, _)
kbList(kb, n) ==
  IF n = maxSkipChains THEN << >>
  ELSE (IF kb.slots[RingAt(kb, n)] = << >> THEN << >>
        ELSE << elementMarshalBinary(kb.slots[RingAt(kb, n)][1]) >>)
       \o kbList(kb, n + 1)

kbMarshalBinary(kb) == kbList(kb, 0)

\* each element of the list is stored as the Value of the slot the new
\* buffer points at; Prev() is called but the buffer is not moved, so the
\* last element of the list is the one that stays
kbUnmarshalBinary(b) ==
  IF Len(b) = 0 THEN newKeyBuffer
  ELSE [newKeyBuffer EXCEPT
          !.slots[newKeyBuffer.cur] = << elementUnmarshalBinary(b[Len(b)]) >>]

drMarshalBinary(dr) ==
  [AssociatedData |-> dr.associatedData, Dhr |-> dhrMarshalBinary(dr.dhr),
   PeerDhPub |-> dr.peerDhPub, ChainKeySend |-> dr.chainKeySend,
   ChainKeyRecv |-> dr.chainKeyRecv, SendNo |-> dr.sendNo, RecvNo |-> dr.recvNo,
   PrevSendNo |-> dr.prevSendNo, MsgKeyBuffer |-> kbMarshalBinary(dr.msgKeyBuffer)]

\* variant: recvNo is not assigned either
drUnmarshalBinary_NoRecvNo(o) ==
  [associatedData |-> o.AssociatedData,
   dhr |-> dhrUnmarshalBinary(o.Dhr),
   peerDhPub |-> o.PeerDhPub,
   chainKeySend |-> o.ChainKeySend, chainKeyRecv |-> o.ChainKeyRecv,
   sendNo |-> o.SendNo, recvNo |-> 0, prevSendNo |-> 0,
   msgKeyBuffer |-> kbUnmarshalBinary(o.MsgKeyBuffer)]

\* prevSendNo is not assigned and keeps the zero value
drUnmarshalBinary(o) ==
  [associatedData |-> o.AssociatedData,
   dhr |-> dhrUnmarshalBinary(o.Dhr),
   peerDhPub |-> o.PeerDhPub,
   chainKeySend |-> o.ChainKeySend, chainKeyRecv |-> o.ChainKeyRecv,
   sendNo |-> o.SendNo, recvNo |-> o.RecvNo, prevSendNo |-> 0,
   msgKeyBuffer |-> kbUnmarshalBinary(o.MsgKeyBuffer)]

\* variant: the record also holds the identity key
SessionMarshalBinary_WithIdentity(s) ==
  [IdentityKey |-> s.IdentityKey,
   LocalUUID |-> s.LocalUUID, RemoteUUID |-> s.RemoteUUID, Me |-> s.Me,
   SpkPub |-> s.spkPub, SpkPriv |-> s.spkPriv,
   DoubleRachet |-> IF s.doubleRatchet = << >> THEN << >>
                    ELSE << drMarshalBinary(s.doubleRatchet[1]) >>]

SessionMarshalBinary(s) ==
  [LocalUUID |-> s.LocalUUID, RemoteUUID |-> s.RemoteUUID, Me |-> s.Me,
   SpkPub |-> s.spkPub, SpkPriv |-> s.spkPriv,
   DoubleRachet |-> IF s.doubleRatchet = << >> THEN << >>
                    ELSE << drMarshalBinary(s.doubleRatchet[1]) >>]

\* into a fresh Session: IdentityKey and VerifyPeer are not part of the record
SessionUnmarshalBinary(o) ==
  [LocalUUID |-> o.LocalUUID, RemoteUUID |-> o.RemoteUUID, Me |-> o.Me,
   IdentityKey |-> 0, VerifyPeer |-> 0,
   spkPub |-> o.SpkPub, spkPriv |-> o.SpkPriv,
   doubleRatchet |-> IF Len(o.DoubleRachet) > 0
                     THEN << drUnmarshalBinary(o.DoubleRachet[1]) >>
                     ELSE << >>]

(***************************************************************************)
(* The stored session of a client: the Session with the peer's name, key   *)
(* and endpoint and the Ack that is still to be posted (<< >> or << env    *)
(* >>).  A store maps a file name to the bytes of the file; the index maps *)
(* a peer's name to the ULID of the session with it.                       *)
(***************************************************************************)
\* session.NewSession for the ULID id, as made by DiskSessionManager.New
smNew(id, me, them) ==
  [Name |-> them, PeerKey |-> IdKey(them), Endpoint |-> them, PendingAck |-> << >>,
   Session |-> [NewSession(me) EXCEPT !.LocalUUID = id, !.VerifyPeer = IdKey(them)]]

diskMarshalBinary(s) ==
  [Name |-> s.Name, Key |-> s.PeerKey, Endpoint |-> s.Endpoint,
   PendingAck |-> s.PendingAck, Session |-> SessionMarshalBinary(s.Session)]

diskUnmarshalBinary(o) ==
  [Name |-> o.Name, PeerKey |-> o.Key, Endpoint |-> o.Endpoint,
   PendingAck |-> o.PendingAck,
   Session |-> [SessionUnmarshalBinary(o.Session) EXCEPT !.VerifyPeer = o.Key]]

\* the ten bytes of a ULID after its timestamp
Entropy(id) == SubSeq(Copy(id, UUIDLen), ULIDTimeLen + 1, UUIDLen)

sessionhash(self, id) == <<self, Entropy(id)>>

\* ulid.Make: the current time and fresh entropy, here the number n
ulidMake(n, now) == encTime([i \in 1..UUIDLen |-> IF i = UUIDLen THEN n % 256 ELSE 0], now)

\* the index after ByName(name); the ULID returned is its value at name
ByName(nm, name, n, now) ==
  IF MapHas(nm, name) THEN nm ELSE MapPut(nm, name, ulidMake(n, now))

Get(store, me, id) ==
  IF ~MapHas(store, sessionhash(me, id)) THEN [err |-> TRUE, s |-> << >>]
  ELSE LET s == diskUnmarshalBinary(store[sessionhash(me, id)])
       IN [err |-> FALSE,
           s |-> << IF Active(s.Session) THEN s
                    ELSE [s EXCEPT !.Session.IdentityKey = IdKey(me)] >>]

Put(store, me, s) ==
  MapPut(store, sessionhash(me, s.Session.LocalUUID), diskMarshalBinary(s))

\* a variant that leaves the file of the session in place
Delete_KeepFile(store, me, s) == store

Delete(store, me, s) == MapDel(store, sessionhash(me, s.Session.LocalUUID))

(***************************************************************************)
(* The index of a session manager and its file.  The file holds the       *)
(* position and one item per entry of the index, the ULID in the text     *)
(* form of ulid.ULID: 26 characters of Crockford's base32 for the 16      *)
(* bytes, two zero bits in front.                                         *)
(***************************************************************************)
ULIDTextLen == 26

CrockfordChars ==
  <<48, 49, 50, 51, 52, 53, 54, 55, 56, 57, 65, 66, 67, 68, 69, 70, 71, 72,
    74, 75, 77, 78, 80, 81, 82, 83, 84, 86, 87, 88, 89, 90>>

\* the value of a character, 255 for one outside the alphabet
CrockfordVal(c) ==
  IF \E v \in 1..Len(CrockfordChars) : CrockfordChars[v] = c
  THEN (CHOOSE v \in 1..Len(CrockfordChars) : CrockfordChars[v] = c) - 1
  ELSE 255

\* a variant that encodes the bits of the bytes with no zero bits in front
ULIDBit_NoPad(id, k) ==
  IF k >= 8 * UUIDLen THEN 0 ELSE (id[k \div 8 + 1] \div 2^(7 - (k % 8))) % 2

\* bit k, 0 the first, of the 130 bits the text encodes
ULIDBit(id, k) ==
  IF k < 2 THEN 0 ELSE (id[(k - 2) \div 8 + 1] \div 2^(7 - ((k - 2) % 8))) % 2

ulidMarshalText(id) ==
  [j \in 1..ULIDTextLen |->
     CrockfordChars[1 + 16 * ULIDBit(id, 5 * (j - 1)) + 8 * ULIDBit(id, 5 * (j - 1) + 1)
                      + 4 * ULIDBit(id, 5 * (j - 1) + 2) + 2 * ULIDBit(id, 5 * (j - 1) + 3)
                      + ULIDBit(id, 5 * (j - 1) + 4)]]

\* bit k, 0 the first, of the 130 bits a text stands for
TextBit(txt, k) == (CrockfordVal(txt[k \div 5 + 1]) \div 2^(4 - (k % 5))) % 2

\* a text of another length, or one whose first character is above '7', is
\* refused
ulidUnmarshalText(txt) ==
  IF Len(txt) # ULIDTextLen \/ CrockfordVal(txt[1]) > 7
  THEN [err |-> TRUE, id |-> << >>]
  ELSE [err |-> FALSE,
        id |-> [i \in 1..UUIDLen |->
                  128 * TextBit(txt, 8 * (i - 1) + 2) + 64 * TextBit(txt, 8 * (i - 1) + 3)
                  + 32 * TextBit(txt, 8 * (i - 1) + 4) + 16 * TextBit(txt, 8 * (i - 1) + 5)
                  + 8 * TextBit(txt, 8 * (i - 1) + 6) + 4 * TextBit(txt, 8 * (i - 1) + 7)
                  + 2 * TextBit(txt, 8 * (i - 1) + 8) + TextBit(txt, 8 * (i - 1) + 9)]]

\* a manager on a path with no index file yet
NewManager == [pos |-> -1, sessions |-> EmptyMap]

\* DiskSessionManager.Close: the content of the index file
smClose(sm) ==
  [Position |-> sm.pos,
   Sessions |-> {[Name |-> n, Session |-> ulidMarshalText(sm.sessions[n])] :
                   n \in DOMAIN sm.sessions}]

\* DiskSessionManager.Load into the manager sm; file is empty when there is
\* no index file
Load(file, sm) ==
  IF file = << >> THEN [err |-> FALSE, sm |-> sm]
  ELSE IF \E it \in file[1].Sessions : ulidUnmarshalText(it.Session).err
  THEN [err |-> TRUE, sm |-> sm]
  ELSE [err |-> FALSE,
        sm |-> [pos |-> IF file[1].Position > 0 THEN file[1].Position ELSE sm.pos,
                sessions |->
                  [n \in DOMAIN sm.sessions \cup {it.Name : it \in file[1].Sessions} |->
                     IF \E it \in file[1].Sessions : it.Name = n
                     THEN ulidUnmarshalText(
                            (CHOOSE it \in file[1].Sessions : it.Name = n).Session).id
                     ELSE sm.sessions[n]]]]

NewSessionManager(file) == Load(file, NewManager)

\* DiskSessionManager.Sessions: the pairs of the index, in no order
Sessions(nm) == {[Name |-> n, ID |-> nm[n]] : n \in DOMAIN nm}

\* DiskSessionManager.New: the index after the call and, when the peer's key
\* was fetched, the new session
managerNew(nm, me, them, n, now, fetched) ==
  LET nm1 == ByName(nm, them, n, now)
  IN [err |-> ~fetched, names |-> nm1,
      s |-> IF fetched THEN <<smNew(nm1[them], me, them)>> ELSE << >>]

\* DiskSessionManager.Delete: the index without the session's name
smDelete(nm, s) == MapDel(nm, s.Name)

\* opening the anonymous box with the recipient's keypair
Unseal(s, priv) ==
  IF s.to # priv \/ ~container(s.digit) THEN [err |-> TRUE, t |-> 0, m |-> << >>]
  ELSE LET u == CASE s.digit = sessOffer -> offerUnmarshalBinary(s.data)
                  [] s.digit = sessAck -> ackUnmarshalBinary(s.data)
                  [] s.digit = sessData -> dataUnmarshalBinary(s.data)
                  [] s.digit = sessClose -> closeUnmarshalBinary(s.data)
                  [] OTHER -> sealedUnmarshalBinary(s.data)
       IN [err |-> u.err, t |-> s.digit, m |-> u.m]

(***************************************************************************)
(* The client.  The outcome of a call is the record Event: res is "ok",    *)
(* "error" or "none" (nothing to do); loaded is the stored session the     *)
(* call worked on, after is that session when the call returned, put is    *)
(* the session it stored, posted the envelope it sent to the peer, events  *)
(* the events about the life of a session it dispatched, in order.        *)
(***************************************************************************)
\* toULID: the first 16 bytes, filled with zeros
toULID(b) == Copy(b, UUIDLen)

\* an event of the type t dispatched for the session id and the peer them
On(t, id, them) == [type |-> t, ID |-> toULID(id), Them |-> them]

Event(op, who, idx) ==
  [op |-> op, who |-> who, idx |-> idx, res |-> "none",
   isEstablished |-> FALSE, isClosed |-> FALSE, plaintext |-> << >>,
   posted |-> << >>, loaded |-> << >>, after |-> << >>, put |-> << >>,
   disk |-> EmptyMap, names |-> EmptyMap, keys |-> 0,
   diskPre |-> EmptyMap, failedData |-> {}, events |-> << >>,
   started |-> [p \in Parties |-> 0]]

\* session.Session.ReceiveMsg: an established handshake replaces PendingAck
\* by the returned plaintext (the Ack for an Offer, nothing for an Ack)
diskReceiveMsg(s, r) ==
  [s EXCEPT !.Session = r.sess,
            !.PendingAck = IF r.isEstablished THEN r.out ELSE s.PendingAck]

\* a variant that takes the result before the function given to Use has run
ChatReturn_Before(established) == FALSE

\* return established, c.sm.Use(...): the result is the variable as the
\* function given to Use left it, the call being made before the variable
\* is read
ChatReturn(established) == established

Chat(e, store, nm, me, them, k, now, o) ==
  LET nm1 == ByName(nm, them, k, now)
      made == IF MapHas(nm, them) THEN 0 ELSE 1
      g == Get(store, me, nm1[them])
      e1 == [e EXCEPT !.disk = store, !.names = nm1, !.keys = made, !.loaded = g.s]
  IN IF g.err
     THEN LET s == smNew(nm1[them], me, them)
              r == OfferSealed(s.Session, s.PeerKey, k + made, o)
              s1 == [s EXCEPT !.Session = r.sess]
          IN IF r.res # "ok"
             THEN [e1 EXCEPT !.res = r.res, !.after = <<s1>>, !.keys = made + r.keys]
             ELSE [e1 EXCEPT !.res = "ok", !.posted = r.out, !.after = <<s1>>,
                             !.put = <<s1>>, !.disk = Put(store, me, s1),
                             !.keys = made + r.keys,
                             !.events = <<On("OnOfferSent", s1.Session.LocalUUID, them)>>]
     ELSE IF g.s[1].PendingAck # << >>
     THEN LET s1 == [g.s[1] EXCEPT !.PendingAck = << >>]
          IN [e1 EXCEPT !.res = "ok", !.posted = g.s[1].PendingAck, !.after = <<s1>>,
                        !.put = <<s1>>, !.disk = Put(store, me, s1),
                        !.isEstablished = ChatReturn(TRUE),
                        !.events = <<On("OnSessionStarted", s1.Session.LocalUUID, them)>>]
     ELSE [e1 EXCEPT !.res = "none", !.after = g.s]

\* asked is the time ulid.Make reads in ByName, now the one Session.Send reads
ClientSend(e, store, nm, me, them, text, k, asked, now) ==
  LET nm1 == ByName(nm, them, k, asked)
      made == IF MapHas(nm, them) THEN 0 ELSE 1
      g == Get(store, me, nm1[them])
      e1 == [e EXCEPT !.disk = store, !.names = nm1, !.keys = made, !.loaded = g.s]
  IN IF g.err THEN [e1 EXCEPT !.res = "error"]
     ELSE LET r == Send(g.s[1].Session, text, now)
              s1 == [g.s[1] EXCEPT !.Session = r.sess]
          IN IF r.res # "ok" THEN [e1 EXCEPT !.res = r.res, !.after = <<s1>>]
             ELSE [e1 EXCEPT !.res = "ok", !.posted = r.out, !.after = <<s1>>,
                             !.put = <<s1>>, !.disk = Put(store, me, s1)]

ClientClose(e, store, nm, me, them, k, now) ==
  LET nm1 == ByName(nm, them, k, now)
      made == IF MapHas(nm, them) THEN 0 ELSE 1
      g == Get(store, me, nm1[them])
      e1 == [e EXCEPT !.disk = store, !.names = nm1, !.keys = made, !.loaded = g.s]
  IN IF g.err THEN [e1 EXCEPT !.res = "error"]
     ELSE LET r == Close(g.s[1].Session)
              s1 == [g.s[1] EXCEPT !.Session = r.sess]
          IN [e1 EXCEPT !.res = "ok", !.posted = r.out, !.after = <<s1>>,
                        !.isClosed = TRUE,
                        !.events = <<On("OnCloseSent", s1.Session.LocalUUID, them),
                                     On("OnSessionClosed", s1.Session.LocalUUID, them)>>,
                        !.disk = Delete(store, me, s1), !.names = MapDel(nm1, s1.Name)]

\* readMsg and the opening of a sealed message: x is the message and its
\* type, id the UUID it names (none for a sealed message)
readMsg(in, me) ==
  LET u == unmarshalMessage(in)
  IN [x |-> IF u.err \/ u.t # sessSealed THEN u ELSE Unseal(u.m, IdKey(me)),
      id |-> IF u.err \/ u.t = sessSealed THEN << >> ELSE u.m.uuid]

\* the end of handleRatchet: r is what ReceiveMsg returned for the session s
\* and id the UUID the message names
handleReceived(e1, store, nm1, me, made, s, r, id) ==
  LET s1 == diskReceiveMsg(s, r)
      e2 == [e1 EXCEPT !.after = <<s1>>, !.keys = made + r.keys]
  IN IF r.res # "ok" THEN [e2 EXCEPT !.res = r.res]
     ELSE [e2 EXCEPT
             !.res = "ok", !.put = <<s1>>,
             !.isEstablished = r.isEstablished, !.isClosed = r.isClosed,
             !.plaintext = IF r.isEstablished THEN << >> ELSE r.plaintext,
             !.disk = IF r.isClosed THEN Delete(Put(store, me, s1), me, s1)
                      ELSE Put(store, me, s1),
             !.names = IF r.isClosed THEN MapDel(nm1, s1.Name) ELSE nm1,
             !.events =
               (IF s1.PendingAck # << >> THEN <<On("OnOfferReceived", id, s1.Name)>>
                ELSE << >>)
               \o (IF r.isClosed THEN <<On("OnSessionClosed", id, s1.Name)>>
                   ELSE IF r.isEstablished THEN <<On("OnSessionStarted", id, s1.Name)>>
                   ELSE << >>)]

\* the session of the message x: a new one for an Offer, the stored one else
handleLoaded(e, store, nm, me, in, x, id, k, now, o) ==
  LET isOffer == ~x.err /\ x.t = sessOffer
      nm1 == IF isOffer THEN ByName(nm, x.m.nick, k, now) ELSE nm
      made == IF isOffer /\ ~MapHas(nm, x.m.nick) THEN 1 ELSE 0
      g == IF isOffer
           THEN [err |-> FALSE, s |-> << smNew(nm1[x.m.nick], me, x.m.nick) >>]
           ELSE Get(store, me, id)
      e1 == [e EXCEPT !.disk = store, !.names = nm1, !.keys = made, !.loaded = g.s]
  IN IF in.prefix # Prefix \/ in.suffix # Suffix THEN [e1 EXCEPT !.res = "none"]
     ELSE IF x.err THEN [e1 EXCEPT !.res = "error", !.loaded = << >>]
     ELSE IF g.err THEN [e1 EXCEPT !.res = "none"]
     ELSE handleReceived(e1, store, nm1, me, made, g.s[1],
                         ReceiveMsg(g.s[1].Session, x.t, x.m, k + made, o), x.m.uuid)

handleRatchet(e, store, nm, me, in, k, now, o) ==
  handleLoaded(e, store, nm, me, in, readMsg(in, me).x, readMsg(in, me).id, k, now, o)

(***************************************************************************)
(* The client of cmd/ratchet/client, the copy the interactive service     *)
(* runs.  Its calls do to the sessions and to the store what those of      *)
(* client do, with these differences: Chat stores the session before it    *)
(* clears PendingAck, Close dispatches no OnCloseSent, and the handler of  *)
(* the input dispatches OnOfferReceived as soon as the session of an Offer *)
(* is made.  c and h are the outcomes of client's Chat, Close and          *)
(* handleRatchet on the same arguments.                                    *)
(***************************************************************************)
ratchetChat(c, store, me) ==
  IF c.res = "ok" /\ c.loaded # << >> /\ c.loaded[1].PendingAck # << >>
  THEN [c EXCEPT !.put = c.loaded, !.disk = Put(store, me, c.loaded[1])]
  ELSE c

ratchetClose(c) ==
  IF c.res = "ok" THEN [c EXCEPT !.events = Tail(c.events)] ELSE c

msgbusHandler(h, in, x) ==
  [h EXCEPT !.events =
     (IF in.prefix = Prefix /\ in.suffix = Suffix /\ ~x.err /\ x.t = sessOffer
      THEN <<On("OnOfferReceived", x.m.uuid, x.m.nick)>> ELSE << >>)
     \o (IF h.res = "ok" /\ h.isClosed
         THEN <<On("OnSessionClosed", x.m.uuid, h.after[1].Name)>>
         ELSE IF h.res = "ok" /\ h.isEstablished
         THEN <<On("OnSessionStarted", x.m.uuid, h.after[1].Name)>>
         ELSE << >>)]

(***************************************************************************)
(* Envelopes as bytes and text.  Here a message holds byte strings         *)
(* (sequences of 0..255) and an encoded message is the sequence of its     *)
(* characters; the section above keeps the same layouts field by field.    *)
(* A keypair of the anonymous box is named by the 32 bytes of its public   *)
(* half.                                                                   *)
(***************************************************************************)
KeyLen == 32
SigLen == 64
AnonymousOverhead == 48

\* "!RAT!" and "!CHT!"
PrefixChars == <<33, 82, 65, 84, 33>>
SuffixChars == <<33, 67, 72, 84, 33>>

Fill(n, b) == [i \in 1..n |-> b]

HasPrefix(s, p) == Len(s) >= Len(p) /\ SubSeq(s, 1, Len(p)) = p
HasSuffix(s, p) == Len(s) >= Len(p) /\ SubSeq(s, Len(s) - Len(p) + 1, Len(s)) = p

\* base64.RawURLEncoding: A-Z a-z 0-9 - _ and no padding
\* variant: the standard alphabet, with + and / for 62 and 63
b64Char_Std(v) ==
  IF v < 26 THEN 65 + v
  ELSE IF v < 52 THEN 97 + (v - 26)
  ELSE IF v < 62 THEN 48 + (v - 52)
  ELSE IF v = 62 THEN 43 ELSE 47

b64Char(v) ==
  IF v < 26 THEN 65 + v
  ELSE IF v < 52 THEN 97 + (v - 26)
  ELSE IF v < 62 THEN 48 + (v - 52)
  ELSE IF v = 62 THEN 45 ELSE 95

b64Val(c) ==
  IF c \in 65..90 THEN c - 65
  ELSE IF c \in 97..122 THEN c - 97 + 26
  ELSE IF c \in 48..57 THEN c - 48 + 52
  ELSE IF c = 45 THEN 62
  ELSE IF c = 95 THEN 63 ELSE -1

EncodedLen(n) == 4 * (n \div 3) + (IF n % 3 = 0 THEN 0 ELSE (n % 3) + 1)

\* the j-th six bits (from 0) of the bytes, the last ones filled with zeros
Sextet(data, j) ==
  LET b(i) == IF 3 * (j \div 4) + i <= Len(data) THEN data[3 * (j \div 4) + i] ELSE 0
  IN CASE j % 4 = 0 -> b(1) \div 4
       [] j % 4 = 1 -> (b(1) % 4) * 16 + (b(2) \div 16)
       [] j % 4 = 2 -> (b(2) % 16) * 4 + (b(3) \div 64)
       [] OTHER -> b(3) % 64

EncodeToString(data) ==
  [j \in 1..EncodedLen(Len(data)) |-> b64Char(Sextet(data, j - 1))]

DecodedLen(n) == 3 * (n \div 4) + (IF n % 4 = 0 THEN 0 ELSE (n % 4) - 1)

\* the i-th byte (from 0) of the characters c
DecodedByte(c, i) ==
  LET v(k) == IF 4 * (i \div 3) + k <= Len(c) THEN b64Val(c[4 * (i \div 3) + k]) ELSE 0
  IN CASE i % 3 = 0 -> v(1) * 4 + (v(2) \div 16)
       [] i % 3 = 1 -> (v(2) % 16) * 16 + (v(3) \div 4)
       [] OTHER -> (v(3) % 4) * 64 + v(4)

NotNewline(c) == c \notin {10, 13}

\* the decoder skips "\r" and "\n", fails on any other character outside
\* the alphabet and on a lone last character, and lets unused bits pass
DecodeChars(c) ==
  IF Len(c) % 4 = 1 \/ \E i \in 1..Len(c) : b64Val(c[i]) < 0
  THEN [err |-> TRUE, data |-> << >>]
  ELSE [err |-> FALSE, data |-> [i \in 1..DecodedLen(Len(c)) |-> DecodedByte(c, i - 1)]]

DecodeString(s) == DecodeChars(SelectSeq(s, NotNewline))

offerMessageMarshalBinary(msg) ==
  Copy(msg.idKey, KeyLen) \o Copy(msg.spKey, KeyLen) \o Copy(msg.spSig, SigLen)
    \o Copy(msg.uuid, UUIDLen) \o msg.nick

offerMessageUnmarshalBinary(data) ==
  IF Len(data) < KeyLen + KeyLen + SigLen + UUIDLen THEN [err |-> TRUE, m |-> << >>]
  ELSE [err |-> FALSE,
        m |-> [idKey |-> SubSeq(data, 1, 32), spKey |-> SubSeq(data, 33, 64),
               spSig |-> SubSeq(data, 65, 128), uuid |-> SubSeq(data, 129, 144),
               nick |-> SubSeq(data, 145, Len(data))]]

ackMessageMarshalBinary(msg) ==
  Copy(msg.idKey, KeyLen) \o Copy(msg.eKey, KeyLen) \o Copy(msg.uuid, UUIDLen)
    \o msg.cipher

\* variant: a payload of exactly 80 bytes passes
ackMessageUnmarshalBinary_AtLeast(data) ==
  IF Len(data) < KeyLen + KeyLen + UUIDLen THEN [err |-> TRUE, m |-> << >>]
  ELSE [err |-> FALSE,
        m |-> [idKey |-> SubSeq(data, 1, 32), eKey |-> SubSeq(data, 33, 64),
               uuid |-> SubSeq(data, 65, 80), cipher |-> SubSeq(data, 81, Len(data))]]

ackMessageUnmarshalBinary(data) ==
  IF Len(data) <= KeyLen + KeyLen + UUIDLen THEN [err |-> TRUE, m |-> << >>]
  ELSE [err |-> FALSE,
        m |-> [idKey |-> SubSeq(data, 1, 32), eKey |-> SubSeq(data, 33, 64),
               uuid |-> SubSeq(data, 65, 80), cipher |-> SubSeq(data, 81, Len(data))]]

dataMessageMarshalBinary(msg) == Copy(msg.uuid, UUIDLen) \o msg.payload

dataMessageUnmarshalBinary(data) ==
  IF Len(data) <= UUIDLen THEN [err |-> TRUE, m |-> << >>]
  ELSE [err |-> FALSE,
        m |-> [uuid |-> SubSeq(data, 1, 16), payload |-> SubSeq(data, 17, Len(data))]]

closeMessageMarshalBinary(msg) == Copy(msg.uuid, UUIDLen) \o msg.payload

closeMessageUnmarshalBinary(data) ==
  IF Len(data) <= UUIDLen THEN [err |-> TRUE, m |-> << >>]
  ELSE [err |-> SubSeq(data, 17, Len(data)) # <<255>>,
        m |-> [uuid |-> SubSeq(data, 1, 16), payload |-> SubSeq(data, 17, Len(data))]]

sealedMessageUnmarshalBinary(data) ==
  IF Len(data) <= 1 THEN [err |-> TRUE, m |-> << >>] ELSE [err |-> FALSE, m |-> data]

\* m.MarshalBinary() and m.UnmarshalBinary(data) for the message type t
MarshalBinary(t, m) ==
  CASE t = sessOffer -> offerMessageMarshalBinary(m)
    [] t = sessAck -> ackMessageMarshalBinary(m)
    [] t = sessData -> dataMessageMarshalBinary(m)
    [] t = sessClose -> closeMessageMarshalBinary(m)
    [] OTHER -> m

UnmarshalBinary(t, data) ==
  CASE t = sessOffer -> offerMessageUnmarshalBinary(data)
    [] t = sessAck -> ackMessageUnmarshalBinary(data)
    [] t = sessData -> dataMessageUnmarshalBinary(data)
    [] t = sessClose -> closeMessageUnmarshalBinary(data)
    [] OTHER -> sealedMessageUnmarshalBinary(data)

\* what a parse returns: res is "ok", "error" or "panic" (an index or a
\* slice out of range)
Parsed(res, t, m) == [res |-> res, t |-> t, m |-> m]

Typed(t, u) == Parsed(IF u.err THEN "error" ELSE "ok", t, u.m)

\* fmt.Fprint(b, int(t)) for a message type
DigitChar(t) == 48 + t

marshalMessageText(t, m) ==
  PrefixChars \o <<DigitChar(t)>> \o EncodeToString(MarshalBinary(t, m)) \o SuffixChars

\* in[len(Prefix)] - '0' as a byte
TypeOf(c) == (c + 256 - 48) % 256

\* the message of type t from the decoded body d
DecodedText(t, d) ==
  IF d.err THEN Parsed("error", t, << >>) ELSE Typed(t, UnmarshalBinary(t, d.data))

unmarshalMessageText(in) ==
  IF ~HasPrefix(in, PrefixChars) \/ ~HasSuffix(in, SuffixChars)
  THEN Parsed("error", 0, << >>)
  ELSE IF Len(in) <= Len(PrefixChars) THEN Parsed("panic", 0, << >>)
  ELSE IF ~container(TypeOf(in[Len(PrefixChars) + 1]))
  THEN Parsed("error", TypeOf(in[Len(PrefixChars) + 1]), << >>)
  ELSE IF Len(PrefixChars) + 1 > Len(in) - Len(SuffixChars) THEN Parsed("panic", 0, << >>)
  ELSE DecodedText(TypeOf(in[Len(PrefixChars) + 1]),
                   DecodeString(SubSeq(in, Len(PrefixChars) + 2, Len(in) - Len(SuffixChars))))

\* box.SealAnonymous and box.OpenAnonymous: the box names the keypair that
\* opens it and is AnonymousOverhead bytes longer than what it holds
SealAnonymous(data, key) ==
  Copy(key, KeyLen) \o Fill(AnonymousOverhead - KeyLen, 0) \o data

OpenAnonymous(s, pub, priv) ==
  IF Len(s) >= AnonymousOverhead /\ pub = priv /\ SubSeq(s, 1, KeyLen) = pub
  THEN [ok |-> TRUE, data |-> SubSeq(s, AnonymousOverhead + 1, Len(s))]
  ELSE [ok |-> FALSE, data |-> << >>]

\* variant: the type is put in front as a number, not as its digit
SealBytes_RawType(t, m, k) ==
  IF t \in {sessOffer, sessAck, sessData, sessClose}
  THEN [err |-> FALSE, out |-> SealAnonymous(<<t>> \o MarshalBinary(t, m), k)]
  ELSE [err |-> TRUE, out |-> << >>]

SealBytes(t, m, k) ==
  IF t \in {sessOffer, sessAck, sessData, sessClose}
  THEN [err |-> FALSE, out |-> SealAnonymous(<<DigitChar(t)>> \o MarshalBinary(t, m), k)]
  ELSE [err |-> TRUE, out |-> << >>]

Opened(o) ==
  IF ~o.ok THEN Parsed("error", 0, << >>)
  ELSE IF Len(o.data) = 0 THEN Parsed("panic", 0, << >>)
  ELSE IF ~container(TypeOf(o.data[1])) THEN Parsed("error", TypeOf(o.data[1]), << >>)
  ELSE Typed(TypeOf(o.data[1]), UnmarshalBinary(TypeOf(o.data[1]), Tail(o.data)))

UnsealBytes(s, priv, pub) == Opened(OpenAnonymous(s, pub, priv))

\* a call of the codec and what it returned
CodecCall(op) ==
  [op |-> op, t |-> 0, m |-> << >>, key |-> << >>, priv |-> << >>,
   text |-> << >>, sealed |-> << >>, back |-> Parsed("none", 0, << >>)]

(***************************************************************************)
(* The value locker.  state is the channel of capacity 1 that holds the    *)
(* guarded value when no caller has it; the value is a pointer, so what fn *)
(* changes is the one object it points to, here its counter.  A caller is  *)
(* at "idle" (not in Use), "check" (at the test of ctx.Err), "select",     *)
(* "fn" and "fnWrite" (in fn, before and after it read the counter) or     *)
(* "defer" (fn returned, the value is still to be sent back).              *)
(***************************************************************************)
Callers == {"g1", "g2", "g3"}
\* a context that can be cancelled, and context.Background()
Ctxs == {"ctx", "background"}

New == [state |-> <<"value">>, Counter |-> 0, cancelled |-> FALSE, ran |-> 0]

\* a caller: ret is what its last Use returned, ran whether that Use called
\* fn, wasDone whether its context was cancelled when Use was called, err
\* whether fn returned an error
Caller ==
  [pc |-> "idle", ctx |-> "background", ret |-> "none", ran |-> FALSE,
   wasDone |-> FALSE, held |-> << >>, tmp |-> 0, uses |-> 0, err |-> FALSE]

\* ctx.Err() != nil, and ctx.Done() being closed
Err(ctx) == ctx = "ctx" /\ locker.cancelled

\* variant: Use does not look at the context before the select
useReturnsEarly_Never(done) == FALSE

\* whether Use returns at the test of ctx.Err()
useReturnsEarly(done) == done

\* variant: the value is sent back only when fn returned no error
sendBack_IfNil(state, held, err) == IF err THEN state ELSE Append(state, held[1])

\* the channel after the deferred s.state <- state
sendBack(state, held, err) == Append(state, held[1])

\* variant: the value is read but stays in the channel
recv_Peek(state) == state

\* the channel after a receive
recv(state) == Tail(state)

(***************************************************************************)
(* The session manager of a party over its directory: whether a manager    *)
(* is open on it, its position, the index file (empty while there is      *)
(* none), the ULIDs made, the times it was closed, the names whose         *)
(* session has been stored, and what Sessions listed and which names had  *)
(* a stored session when it was last closed.                              *)
(* The index of the open manager is names, the session files are disk.    *)
(***************************************************************************)
Manager ==
  [open |-> TRUE, pos |-> NewManager.pos, file |-> << >>, made |-> 0, closes |-> 0,
   put |-> {}, listed |-> {}, kept |-> {}]

\* the outcome of a call to the manager: got is the session Get returned
ManagerCall(op, who, name) ==
  [op |-> op, who |-> who, name |-> name, res |-> "ok", got |-> << >>]

\* the positions handed to SetPosition
Positions == {0, 7}

\* the parties whose manager is followed through its calls
Owners == {"alice"}

(***************************************************************************)
(* The interactive service.  New makes the MemSession, which registers its *)
(* handlers; Run starts Interactive in a goroutine of its own and then     *)
(* runs the client's driver.  Interactive registers its handlers one On    *)
(* call after the other and then reads the input, whose commands dispatch  *)
(* events; the driver hands what it receives to the client's handlers,     *)
(* which dispatch events.  on is the client's handler map, as the number   *)
(* of handlers per type of event; at is the On call Interactive is at,     *)
(* writing whether it is inside that call; read is the latest dispatch:    *)
(* its goroutine, the type, the number of handlers it saw, the number of   *)
(* On calls of Interactive completed when it started and whether it        *)
(* started inside one.  fatal is the runtime's abort on a map read during  *)
(* a map write.                                                            *)
(***************************************************************************)
MemSessionOns ==
  {"OnOfferSent", "OnOfferReceived", "OnSessionStarted", "OnSessionClosed",
   "OnMessageReceived", "OnMessageSent", "OnSaltySent", "OnSaltyTextReceived",
   "OnSaltyEventReceived", "OnReceived"}

InteractiveOns ==
  <<"OnOfferSent", "OnOfferReceived", "OnSessionStarted", "OnSessionClosed",
    "OnMessageReceived", "OnMessageSent", "OnSaltySent", "OnSaltyTextReceived",
    "OnSaltyEventReceived", "OnReceived", "error">>

\* the events the handlers of the driver's input dispatch, and those the
\* commands of the input loop dispatch
DriverEvents ==
  {"OnOfferReceived", "OnSessionStarted", "OnSessionClosed", "OnMessageReceived",
   "OnSaltyTextReceived", "OnSaltyEventReceived", "OnReceived", "error"}
LoopEvents ==
  {"OnOfferSent", "OnSessionStarted", "OnMessageSent", "OnSaltySent", "OnSessionClosed"}

MaxDispatch == 2

\* On: c.on[id] = append(c.on[id], fn)
clientOn(on, t) == [on EXCEPT ![t] = on[t] + 1]

\* dispatch: hdlrs := c.on[id]
dispatch(on, t) == on[t]

Service ==
  [on |-> [t \in MemSessionOns \cup {"error"} |-> IF t \in MemSessionOns THEN 1 ELSE 0],
   at |-> 1, writing |-> FALSE, dispatches |-> 0, read |-> << >>, fatal |-> FALSE]

(***************************************************************************)
(* The two sessions and the transport.  wire is every envelope produced so *)
(* far, with its sender and, for a Data envelope, the plaintext it was     *)
(* made from.  last is the latest call and what it returned; last.pre is   *)
(* the session it was called on; last.closes counts (up to 2) the Close    *)
(* envelopes the session has just received in a row.  An abort ends the    *)
(* run.                                                                    *)
(***************************************************************************)
(***************************************************************************)
(* The pager.  A uint64 is held as the int64 of the same bits: a negative  *)
(* number stands for the uint64 that wraps to it, so sums and differences  *)
(* are those of the integers and only the comparison differs.  The values  *)
(* of the model stay far from 2^63, where the two would part.              *)
(***************************************************************************)
\* a < b for two uint64
ULess(a, b) == IF (a >= 0) = (b >= 0) THEN a < b ELSE a >= 0

\* math.Abs, math.Min and math.Max of int64
Abs(i) == IF i > 0 THEN i ELSE -i
MinOf(i, j) == IF i > j THEN j ELSE i
MaxOf(i, j) == IF i < j THEN j ELSE i

\* the start PagerBox computes before it looks at count
pagerStart(first, lst, pos) ==
  IF pos >= 0 THEN (IF first > pos THEN first ELSE pos + 1) ELSE lst + pos + 1

\* the count PagerBox computes for that start
pagerCount(first, lst, pos, count, start) ==
  IF count > 0 THEN MinOf(count, (lst - start) + 1)
  ELSE IF pos >= 0 /\ count < 0 THEN MaxOf(count, first - start)
  ELSE IF pos < 0 /\ count < 0 THEN MaxOf(count, (first - start) - 1)
  ELSE count

\* the end of PagerBox: (0, 0) or the start and the count
pagerBoxed(first, lst, start, count) ==
  IF count = 0 \/ (ULess(start, first) /\ count <= 0) \/ (ULess(lst, start) /\ count >= 0)
  THEN [start |-> 0, count |-> 0]
  ELSE [start |-> start, count |-> count]

PagerBox(first, lst, pos, count) ==
  pagerBoxed(first, lst, pagerStart(first, lst, pos),
             pagerCount(first, lst, pos, count, pagerStart(first, lst, pos)))

\* the loop of ReadLog over a stream of lst entries: the positions read so
\* far are lis, the next is start; reading outside the stream aborts
RECURSIVE readLoop(_, _, _, _, _)
readLoop(lst, start, count, n, lis) ==
  IF Len(lis) = n THEN [res |-> "ok", lis |-> lis]
  ELSE IF start - 1 < 0 \/ start - 1 >= lst THEN [res |-> "panic", lis |-> lis]
  ELSE IF ULess(IF count > 0 THEN start + 1 ELSE start - 1, 1)
          \/ ULess(lst, IF count > 0 THEN start + 1 ELSE start - 1)
  THEN [res |-> "ok", lis |-> Append(lis, start)]
  ELSE readLoop(lst, IF count > 0 THEN start + 1 ELSE start - 1, count, n,
                Append(lis, start))

\* MemSession.ReadLog on a stream of len entries: the positions it returns
ReadLog(len, after, count) ==
  IF len = 0 \/ PagerBox(1, len, after, count).count = 0
  THEN [res |-> "ok", lis |-> << >>]
  ELSE readLoop(len, PagerBox(1, len, after, count).start,
                PagerBox(1, len, after, count).count,
                Abs(PagerBox(1, len, after, count).count), << >>)

\* a call to the pager and what it returned
PagerCall(op, first, lst, pos, n) ==
  [op |-> op, first |-> first, last |-> lst, pos |-> pos, n |-> n,
   start |-> 0, count |-> 0, res |-> "ok", lis |-> << >>]

Init ==
  /\ sess = [p \in Parties |-> NewSession(p)]
  /\ wire = << >>
  /\ rd = [p \in Parties |-> 0]
  /\ nextKey = FirstKey
  /\ last = [op |-> "init", who |-> "alice", idx |-> 0, arg |-> << >>,
             res |-> "ok", isEstablished |-> FALSE, isClosed |-> FALSE,
             plaintext |-> << >>, out |-> << >>, pre |-> NewSession("alice"),
             closes |-> 0]
  /\ restored = {}
  /\ keyBuf = newKeyBuffer
  /\ kbNext = FirstPub
  /\ kbLast = [op |-> "init", dhPub |-> 0, msgNo |-> 0, ok |-> FALSE,
               msgKey |-> << >>, pre |-> newKeyBuffer, again |-> 0]
  /\ disk = [p \in Parties |-> EmptyMap]
  /\ names = [p \in Parties |-> EmptyMap]
  /\ clientLast = [Event("init", "alice", 0) EXCEPT !.res = "ok"]
  /\ codec = CodecCall("init")
  /\ locker = New
  /\ callers = [c \in Callers |-> Caller]
  /\ mgr = [p \in Parties |-> Manager]
  /\ mgrLast = ManagerCall("init", "alice", "alice")
  /\ pager = PagerCall("init", 1, 1, 0, 0)
  /\ svc = Service

Apply(p, op, idx, arg, r, newRd, cap) ==
  /\ last.res # "panic"
  /\ r.res # "ok" \/ r.out = << >> \/ Len(wire) < cap
  /\ sess' = [sess EXCEPT ![p] = r.sess]
  /\ wire' = IF r.res = "ok" /\ r.out # << >>
             THEN Append(wire, [from |-> p, env |-> r.out[1], pt |-> arg])
             ELSE wire
  /\ rd' = newRd
  /\ nextKey' = nextKey + r.keys
  /\ last' = [op |-> op, who |-> p, idx |-> idx, arg |-> arg, res |-> r.res,
              isEstablished |-> r.isEstablished, isClosed |-> r.isClosed,
              plaintext |-> r.plaintext, out |-> r.out, pre |-> sess[p],
              closes |-> IF ~(op = "Receive" /\ wire[idx].env.t = sessClose) THEN 0
                         ELSE IF last.who = p /\ last.closes > 0 THEN 2 ELSE 1]
  /\ UNCHANGED <<restored, kbVars, clientVars, codecVars, lockVars, mgrVars, pagerVars, svcVars>>

\* Any call on either session, with any envelope produced so far as input.
DoOffer(p) ==
  \E o \in OutcomesFor(sess[p]) :
    Apply(p, "Offer", 0, << >>, Offer(sess[p], nextKey, o), rd, MaxWire)

DoOfferSealed(p) ==
  \E k \in SealKeys, o \in OutcomesFor(sess[p]) :
    Apply(p, "OfferSealed", 0, << >>, OfferSealed(sess[p], k, nextKey, o), rd, MaxWire)

DoAcknowledge(p) ==
  \E i \in 1..Len(wire), o \in OutcomesFor(sess[p]) :
    Apply(p, "Acknowledge", i, << >>, Acknowledge(sess[p], wire[i].env, nextKey, o), rd, MaxWire)

DoReceive(p) ==
  \E i \in 1..Len(wire), o \in OutcomesFor(sess[p]) :
    Apply(p, "Receive", i, << >>, Receive(sess[p], wire[i].env, nextKey, o), rd, MaxWire)

DoSend(p) ==
  \E pt \in {Hello}, now \in {Min(Times)} :
    Apply(p, "Send", 0, pt, Send(sess[p], pt, now), rd, MaxWire)

DoClose(p) ==
  \E r \in {Close(sess[p])} :
    Apply(p, "Close", 0, << >>, r, rd, MaxWire)

Next ==
  \E p \in Parties :
    \/ DoOffer(p)
    \/ DoOfferSealed(p)
    \/ DoAcknowledge(p)
    \/ DoReceive(p)
    \/ DoSend(p)
    \/ DoClose(p)

Spec == Init /\ [][Next]_vars

(***************************************************************************)
(* The ordered exchange: one party offers, and every envelope is delivered *)
(* to the other party in the order it was sent (rd[p] counts the envelopes *)
(* delivered to p).  An Offer is passed to Acknowledge, everything else to *)
(* Receive.                                                                *)
(***************************************************************************)
Inbox(p) == {i \in 1..Len(wire) : wire[i].from = Other(p)}

NextIdx(p) == {i \in Inbox(p) : Cardinality({j \in Inbox(p) : j < i}) = rd[p]}

OrdOffer(p) ==
  /\ wire = << >>
  /\ \A q \in Parties : sess[q] = NewSession(q)
  /\ Apply(p, "Offer", 0, << >>, Offer(sess[p], nextKey, "error"), rd, MaxOrdWire)

OrdDeliver(p) ==
  \E i \in NextIdx(p) :
    IF wire[i].env.t = sessOffer
    THEN Apply(p, "Acknowledge", i, << >>,
               Acknowledge(sess[p], wire[i].env, nextKey, "error"),
               [rd EXCEPT ![p] = rd[p] + 1], MaxOrdWire)
    ELSE Apply(p, "Receive", i, << >>,
               Receive(sess[p], wire[i].env, nextKey, "error"),
               [rd EXCEPT ![p] = rd[p] + 1], MaxOrdWire)

OrdSend(p) ==
  \E pt \in Plaintexts, now \in Times :
    Apply(p, "Send", 0, pt, Send(sess[p], pt, now), rd, MaxOrdWire)

NextOrdered ==
  \E p \in Parties :
    \/ OrdOffer(p)
    \/ OrdDeliver(p)
    \/ OrdSend(p)

SpecOrdered == Init /\ [][NextOrdered]_vars

(***************************************************************************)
(* The key buffer taken by itself: any sequence of insert and find calls.  *)
(* DH publics are numbered in the order they first appear (kbNext is the   *)
(* next one); a message key is named by its public and number.  The chain  *)
(* of the first public is filled with the numbers 0, 1, 2, ... in turn, a  *)
(* later chain holds the key 0.  kbLast is the latest call, what it        *)
(* returned and the buffer it was called on.                               *)
(***************************************************************************)
KeyOf(dhPub, msgNo) == <<dhPub, msgNo>>

\* the publics and the message numbers held by buffer b
PubsOf(b) == {b.slots[i][1].dhPub : i \in {j \in 1..maxSkipChains : b.slots[j] # << >>}}
NosOf(b, dhPub) == DOMAIN b.slots[elementFind(b, dhPub)][1].msgKeys

KbInsertNew ==
  /\ kbNext - FirstPub < MaxKbPubs
  /\ keyBuf' = insert(keyBuf, kbNext, 0, KeyOf(kbNext, 0))
  /\ kbNext' = kbNext + 1
  /\ kbLast' = [op |-> "insert", dhPub |-> kbNext, msgNo |-> 0, ok |-> TRUE,
                msgKey |-> KeyOf(kbNext, 0), pre |-> keyBuf, again |-> kbLast.again]
  /\ UNCHANGED <<sessVars, clientVars, codecVars, lockVars, mgrVars, pagerVars, svcVars>>

KbInsert ==
  \E dhPub \in PubsOf(keyBuf) :
    \E msgNo \in {0} \cup {n \in {Cardinality(NosOf(keyBuf, dhPub))} :
                              dhPub = FirstPub /\ n < MaxChainKeys} :
      /\ keyBuf' = insert(keyBuf, dhPub, msgNo, KeyOf(dhPub, msgNo))
      /\ kbLast' = [op |-> "insert", dhPub |-> dhPub, msgNo |-> msgNo, ok |-> TRUE,
                    msgKey |-> KeyOf(dhPub, msgNo), pre |-> keyBuf,
                    again |-> kbLast.again]
      /\ UNCHANGED <<kbNext, sessVars, clientVars, codecVars, lockVars, mgrVars, pagerVars, svcVars>>

\* insert under a public whose chain was overwritten, at most MaxAgain times
KbInsertAgain ==
  \E dhPub \in (FirstPub..(kbNext - 1)) \ PubsOf(keyBuf) :
    /\ kbLast.again < MaxAgain
    /\ keyBuf' = insert(keyBuf, dhPub, 0, KeyOf(dhPub, 0))
    /\ kbLast' = [op |-> "insert", dhPub |-> dhPub, msgNo |-> 0, ok |-> TRUE,
                  msgKey |-> KeyOf(dhPub, 0), pre |-> keyBuf,
                  again |-> kbLast.again + 1]
    /\ UNCHANGED <<kbNext, sessVars, clientVars, codecVars, lockVars, mgrVars, pagerVars, svcVars>>

KbFind ==
  \E dhPub \in FirstPub..(kbNext - 1), msgNo \in {0, 1, maxSkipElements} :
    \E f \in {find(keyBuf, dhPub, msgNo)} :
      /\ kbLast' = [op |-> "find", dhPub |-> dhPub, msgNo |-> msgNo, ok |-> f.ok,
                    msgKey |-> f.msgKey, pre |-> keyBuf, again |-> kbLast.again]
      /\ UNCHANGED <<keyBuf, kbNext, sessVars, clientVars, codecVars, lockVars, mgrVars, pagerVars, svcVars>>

NextKb == KbInsertNew \/ KbInsert \/ KbFind

SpecKb == Init /\ [][NextKb]_vars

\* the key buffer with inserts under publics whose chain was overwritten
NextKbAgain == KbInsertNew \/ KbInsert \/ KbInsertAgain \/ KbFind

SpecKbAgain == Init /\ [][NextKbAgain]_vars

(***************************************************************************)
(* The ordered exchange with restarts: at any point a party may store its  *)
(* session and go on with the session it reads back (restored is the set   *)
(* of parties that did).                                                   *)
(***************************************************************************)
\* the session of p as Put writes it and Get reads it back
Reload(p, s) ==
  Get(Put(EmptyMap, p, [smNew(s.LocalUUID, p, Other(p)) EXCEPT !.Session = s]),
      p, s.LocalUUID).s[1].Session

OrdRestart(p) ==
  /\ last.res # "panic"
  /\ sess' = [sess EXCEPT ![p] = Reload(p, sess[p])]
  /\ restored' = restored \cup {p}
  /\ last' = [op |-> "Restart", who |-> p, idx |-> 0, arg |-> << >>, res |-> "ok",
              isEstablished |-> FALSE, isClosed |-> FALSE,
              plaintext |-> << >>, out |-> << >>, pre |-> sess[p], closes |-> 0]
  /\ UNCHANGED <<wire, rd, nextKey, kbVars, clientVars, codecVars, lockVars, mgrVars, pagerVars, svcVars>>

RstOffer(p) ==
  /\ wire = << >>
  /\ \A q \in Parties : Reload(q, sess[q]) = NewSession(q)
  /\ Apply(p, "Offer", 0, << >>, Offer(sess[p], nextKey, "error"), rd, MaxRestartWire)

RstDeliver(p) ==
  \E i \in NextIdx(p) :
    IF wire[i].env.t = sessOffer
    THEN Apply(p, "Acknowledge", i, << >>,
               Acknowledge(sess[p], wire[i].env, nextKey, "error"),
               [rd EXCEPT ![p] = rd[p] + 1], MaxRestartWire)
    ELSE Apply(p, "Receive", i, << >>,
               Receive(sess[p], wire[i].env, nextKey, "error"),
               [rd EXCEPT ![p] = rd[p] + 1], MaxRestartWire)

RstSend(p) ==
  \E pt \in {Hello}, now \in {Min(Times)} :
    Apply(p, "Send", 0, pt, Send(sess[p], pt, now), rd, MaxRestartWire)

NextRestart ==
  \E p \in Parties :
    \/ RstOffer(p)
    \/ RstDeliver(p)
    \/ RstSend(p)
    \/ OrdRestart(p)

SpecRestart == Init /\ [][NextRestart]_vars

(***************************************************************************)
(* The two clients.  Every call loads the session from the store and       *)
(* stores it again; a posted envelope can be put into the peer's client    *)
(* any number of times and in any order.                                   *)
(***************************************************************************)
\* the call e was the input of a Data envelope for a stored Active session
\* and returned an error
FailedData(e) ==
  /\ e.op = "Input" /\ wire[e.idx].env.t = sessData
  /\ e.loaded # << >> /\ Active(e.loaded[1].Session)
  /\ e.res = "error"

\* the call worked on a session it made: Chat with none stored, the handler
\* of an Offer
MadeSession(e) ==
  \/ e.op = "Chat" /\ e.loaded = << >>
  \/ /\ e.op = "Input" /\ e.loaded # << >>
     /\ ~Active(e.loaded[1].Session) /\ e.loaded[1].Session.spkPriv = 0

\* how often the party has dispatched OnSessionStarted for the session it
\* has with its peer, counted up to 2: from 0 for a session the call made
StartedAfter(n, e) ==
  LET base == IF MadeSession(e) THEN 0 ELSE n
      more == Cardinality({i \in 1..Len(e.events) : e.events[i].type = "OnSessionStarted"})
  IN IF base + more > 2 THEN 2 ELSE base + more

ClientApply(p, e) ==
  /\ clientLast.res # "panic"
  /\ e.posted = << >> \/ Len(wire) < MaxClientWire
  /\ e.keys = 0 \/ nextKey + e.keys - FirstKey <= MaxClientKeys
  /\ disk' = [disk EXCEPT ![p] = e.disk]
  /\ names' = [names EXCEPT ![p] = e.names]
  /\ wire' = IF e.posted = << >> THEN wire
             ELSE Append(wire, [from |-> p, env |-> e.posted[1], pt |-> e.plaintext])
  /\ nextKey' = nextKey + e.keys
  /\ clientLast' = [e EXCEPT !.diskPre = disk[p], !.disk = EmptyMap, !.names = EmptyMap,
                             !.failedData = clientLast.failedData \cup
                                            (IF FailedData(e) THEN {p} ELSE {}),
                             !.plaintext = IF e.posted = << >> THEN e.plaintext ELSE << >>,
                             !.started = [clientLast.started EXCEPT
                                            ![p] = StartedAfter(clientLast.started[p], e)]]
  /\ UNCHANGED <<sess, rd, last, restored, kbVars, codecVars, lockVars, mgrVars, pagerVars, svcVars>>

DoChat(p) ==
  \E e \in {Chat(Event("Chat", p, 0), disk[p], names[p], p, Other(p), nextKey,
                 Min(Times), "error")} :
    ClientApply(p, e)

\* a message is sent at the later of the times, after the sessions were made
DoClientSend(p) ==
  \E e \in {ClientSend([Event("Send", p, 0) EXCEPT !.plaintext = Hello], disk[p], names[p],
                       p, Other(p), Hello, nextKey, Min(Times),
                       CHOOSE t \in Times : t # Min(Times))} :
    ClientApply(p, e)

DoClientClose(p) ==
  \E e \in {ClientClose(Event("Close", p, 0), disk[p], names[p], p, Other(p), nextKey,
                        Min(Times))} :
    ClientApply(p, e)

DoInput(p) ==
  \E i \in {j \in 1..Len(wire) : wire[j].from = Other(p)} :
    \E e \in {handleRatchet(Event("Input", p, i), disk[p], names[p], p, wire[i].env,
                            nextKey, Min(Times), "error")} :
      ClientApply(p, e)

NextClient ==
  \E p \in Parties :
    \/ DoChat(p)
    \/ DoClientSend(p)
    \/ DoClientClose(p)
    \/ DoInput(p)

SpecClient == Init /\ [][NextClient]_vars

(***************************************************************************)
(* The two clients of cmd/ratchet/client with their session stores.        *)
(***************************************************************************)
DoRatchetChat(p) ==
  \E e \in {ratchetChat(Chat(Event("Chat", p, 0), disk[p], names[p], p, Other(p), nextKey,
                             Min(Times), "error"), disk[p], p)} :
    ClientApply(p, e)

DoRatchetClose(p) ==
  \E e \in {ratchetClose(ClientClose(Event("Close", p, 0), disk[p], names[p], p, Other(p),
                                     nextKey, Min(Times)))} :
    ClientApply(p, e)

DoRatchetInput(p) ==
  \E i \in {j \in 1..Len(wire) : wire[j].from = Other(p)} :
    \E e \in {msgbusHandler(handleRatchet(Event("Input", p, i), disk[p], names[p], p,
                                          wire[i].env, nextKey, Min(Times), "error"),
                            wire[i].env, readMsg(wire[i].env, p).x)} :
      ClientApply(p, e)

NextRatchetClient ==
  \E p \in Parties :
    \/ DoRatchetChat(p)
    \/ DoClientSend(p)
    \/ DoRatchetClose(p)
    \/ DoRatchetInput(p)

SpecRatchetClient == Init /\ [][NextRatchetClient]_vars

(***************************************************************************)
(* The codec taken by itself: messages are marshalled and parsed back,     *)
(* texts are parsed, messages are sealed and unsealed.  The messages have  *)
(* fields of their widths and also shorter and longer ones, the texts are  *)
(* payloads around the least lengths under every type digit, and texts    *)
(* with a broken frame or a broken body.                                   *)
(***************************************************************************)
KeyBytes(b) == [i \in 1..KeyLen |-> (b + i) % 256]
SigBytes(b) == [i \in 1..SigLen |-> (b + 3 * i) % 256]

KeyFields == {KeyBytes(0), KeyBytes(250), <<1, 2, 3>>}
SigFields == {SigBytes(1), Fill(SigLen + 1, 9)}
UuidFields ==
  {Fill(UUIDLen, 0), <<1>> \o Fill(UUIDLen - 1, 0), Fill(UUIDLen, 255),
   << >>, <<1, 2, 3>>, Fill(UUIDLen + 1, 5)}
NickFields == {<< >>, <<98, 111, 98>>}
CipherFields == {<< >>, <<1, 2, 3, 4, 5, 6, 7>>, <<255>>, <<0>>, <<255, 255>>}
BoxKeys == {KeyBytes(40), KeyBytes(41)}

Offers ==
  {[t |-> sessOffer,
    m |-> [idKey |-> k, spKey |-> KeyBytes(7), spSig |-> s, uuid |-> u, nick |-> n]] :
      k \in KeyFields, s \in SigFields, u \in UuidFields, n \in NickFields}
Acks ==
  {[t |-> sessAck, m |-> [idKey |-> k, eKey |-> KeyBytes(9), uuid |-> u, cipher |-> c]] :
      k \in KeyFields, u \in UuidFields, c \in CipherFields}
Datas == {[t |-> sessData, m |-> [uuid |-> u, payload |-> c]] :
            u \in UuidFields, c \in CipherFields}
Closes == {[t |-> sessClose, m |-> [uuid |-> u, payload |-> c]] :
             u \in UuidFields, c \in CipherFields}
Plain == Offers \cup Acks \cup Datas \cup Closes
Sealeds ==
  {[t |-> sessSealed, m |-> SealBytes(e.t, e.m, k).out] : e \in Datas \cup Closes, k \in BoxKeys}
    \cup {[t |-> sessSealed, m |-> b] : b \in {<< >>, <<7>>, <<7, 8>>}}

\* a message as the layouts have it: every field of its width, a cipher or
\* a payload that is not empty, 0xff as the payload of a Close, a box that
\* holds something
WellFormed(t, m) ==
  CASE t = sessOffer -> /\ Len(m.idKey) = KeyLen /\ Len(m.spKey) = KeyLen
                        /\ Len(m.spSig) = SigLen /\ Len(m.uuid) = UUIDLen
    [] t = sessAck -> /\ Len(m.idKey) = KeyLen /\ Len(m.eKey) = KeyLen
                      /\ Len(m.uuid) = UUIDLen /\ Len(m.cipher) > 0
    [] t = sessData -> Len(m.uuid) = UUIDLen /\ Len(m.payload) > 0
    [] t = sessClose -> Len(m.uuid) = UUIDLen /\ m.payload = <<255>>
    [] OTHER -> Len(m) > AnonymousOverhead

PayloadLens == {0, 1, 2, 15, 16, 17, 18, 79, 80, 81, 82, 143, 144, 145}
\* "/", "0" .. "9", ":", "C" and "!"
TypeChars == 47..58 \cup {67, 33}

Framed(c, body) == PrefixChars \o <<c>> \o body \o SuffixChars

\* the text s with the character c in place of its i-th
WithChar(s, i, c) == [s EXCEPT ![i] = c]

GoodText == marshalMessageText(sessData, [uuid |-> Fill(UUIDLen, 0), payload |-> <<1, 2, 3>>])
GoodBody == EncodeToString(Fill(UUIDLen, 0) \o <<1, 2, 3>>)

Texts ==
  {Framed(c, EncodeToString(Fill(n, b))) : c \in TypeChars, n \in PayloadLens, b \in {0, 255}}
    \cup {<< >>, PrefixChars, SuffixChars, SuffixChars \o PrefixChars,
          PrefixChars \o SuffixChars, SubSeq(PrefixChars, 1, 4) \o SuffixChars,
          Tail(GoodText), SubSeq(GoodText, 1, Len(GoodText) - 1),
          WithChar(GoodText, 2, 114), WithChar(GoodText, Len(GoodText) - 1, 116),
          <<32>> \o GoodText, GoodText \o <<10>>}
    \cup {Framed(DigitChar(sessData), WithChar(GoodBody, i, c)) :
            i \in {1, Len(GoodBody)}, c \in {61, 43, 47, 32, 10, 13, 240, 66}}
    \cup {Framed(DigitChar(sessData), GoodBody \o x) : x \in {<<65>>, <<65, 65>>, <<61>>, <<10>>}}

\* one call in a run: the calls do not depend on each other
CodecApply(c) ==
  /\ codec.op = "init"
  /\ codec' = c
  /\ UNCHANGED <<sessVars, kbVars, clientVars, lockVars, mgrVars, pagerVars, svcVars>>

MarshalCall(e) ==
  \E text \in {marshalMessageText(e.t, e.m)} :
    CodecApply([CodecCall("marshal") EXCEPT !.t = e.t, !.m = e.m, !.text = text,
                                            !.back = unmarshalMessageText(text)])

DoMarshal ==
  \/ \E e \in Plain : MarshalCall(e)
  \/ \E e \in Sealeds : MarshalCall(e)

DoParse ==
  \E text \in Texts :
    CodecApply([CodecCall("parse") EXCEPT !.text = text,
                                          !.back = unmarshalMessageText(text)])

SealCall(e, k, priv) ==
  \E s \in {SealBytes(e.t, e.m, k)} :
    CodecApply([CodecCall("seal") EXCEPT
                  !.t = e.t, !.m = e.m, !.key = k, !.priv = priv, !.sealed = s.out,
                  !.back = IF s.err THEN Parsed("error", 0, << >>)
                           ELSE UnsealBytes(s.out, priv, priv)])

DoSeal ==
  \E k \in BoxKeys, priv \in BoxKeys :
    \/ \E e \in Plain : SealCall(e, k, priv)
    \/ \E e \in Sealeds : SealCall(e, k, priv)

\* a box that was not made by Seal: one that holds nothing, one that holds
\* a type digit only, one that holds a box
DoUnseal ==
  \E data \in {<< >>, <<DigitChar(sessData)>>, <<DigitChar(sessSealed), 1, 2>>,
               <<DigitChar(sessSealed), 1>>, <<DigitChar(0)>> \o Fill(UUIDLen + 1, 255)},
     k \in BoxKeys, priv \in BoxKeys :
    \E s \in {SealAnonymous(data, k)} :
      CodecApply([CodecCall("unseal") EXCEPT !.m = data, !.key = k, !.priv = priv,
                                             !.sealed = s,
                                             !.back = UnsealBytes(s, priv, priv)])

NextCodec == DoMarshal \/ DoParse \/ DoSeal \/ DoUnseal

SpecCodec == Init /\ [][NextCodec]_vars

(***************************************************************************)
(* The callers of the value locker: each calls Use a few times, with the   *)
(* context that can be cancelled or with the background context, and the   *)
(* context is cancelled at any moment.                                     *)
(***************************************************************************)
LockApply(c, new, lk) ==
  /\ callers' = [callers EXCEPT ![c] = new]
  /\ locker' = lk
  /\ UNCHANGED <<sessVars, kbVars, clientVars, codecVars, mgrVars, pagerVars, svcVars>>

Use(c) ==
  \E ctx \in Ctxs :
    /\ callers[c].pc = "idle" /\ callers[c].uses < MaxUses
    /\ LockApply(c, [Caller EXCEPT !.pc = "check", !.ctx = ctx, !.wasDone = Err(ctx),
                                   !.uses = callers[c].uses + 1], locker)

UseCheck(c) ==
  /\ callers[c].pc = "check"
  /\ IF useReturnsEarly(Err(callers[c].ctx))
     THEN LockApply(c, [callers[c] EXCEPT !.pc = "idle", !.ret = "ctxErr"], locker)
     ELSE LockApply(c, [callers[c] EXCEPT !.pc = "select"], locker)

SelectState(c) ==
  /\ callers[c].pc = "select" /\ locker.state # << >>
  /\ LockApply(c, [callers[c] EXCEPT !.pc = "fn", !.held = <<Head(locker.state)>>,
                                     !.ran = TRUE],
               [locker EXCEPT !.state = recv(locker.state)])

SelectDone(c) ==
  /\ callers[c].pc = "select" /\ Err(callers[c].ctx)
  /\ LockApply(c, [callers[c] EXCEPT !.pc = "idle", !.ret = "ctxErr"], locker)

\* fn, as in the test: c.Counter++
FnRead(c) ==
  /\ callers[c].pc = "fn"
  /\ LockApply(c, [callers[c] EXCEPT !.pc = "fnWrite", !.tmp = locker.Counter], locker)

FnWrite(c) ==
  /\ callers[c].pc = "fnWrite"
  /\ LockApply(c, [callers[c] EXCEPT !.pc = "defer"],
               [locker EXCEPT !.Counter = callers[c].tmp + 1, !.ran = locker.ran + 1])

\* a fn that returns an error after reading the value
FnFail(c) ==
  /\ callers[c].pc = "fn"
  /\ LockApply(c, [callers[c] EXCEPT !.pc = "defer", !.err = TRUE], locker)

\* the deferred send; it waits while the channel is full
UseReturn(c) ==
  /\ callers[c].pc = "defer" /\ Len(locker.state) < 1
  /\ LockApply(c, [callers[c] EXCEPT !.pc = "idle", !.held = << >>,
                                     !.ret = IF callers[c].err THEN "fnErr" ELSE "nil"],
               [locker EXCEPT !.state = sendBack(locker.state, callers[c].held,
                                                 callers[c].err)])

Cancel ==
  /\ ~locker.cancelled
  /\ locker' = [locker EXCEPT !.cancelled = TRUE]
  /\ UNCHANGED <<callers, sessVars, kbVars, clientVars, codecVars, mgrVars, pagerVars, svcVars>>

NextLocker ==
  \/ \E c \in Callers :
       \/ Use(c)
       \/ UseCheck(c)
       \/ SelectState(c)
       \/ SelectDone(c)
       \/ FnRead(c)
       \/ FnWrite(c)
       \/ FnFail(c)
       \/ UseReturn(c)
  \/ Cancel

SpecLocker == Init /\ [][NextLocker]_vars

(***************************************************************************)
(* The session manager taken by itself, as the test drives it: sessions    *)
(* are made, stored, looked up and deleted, the manager is closed and a    *)
(* new one is opened on the same directory.                               *)
(***************************************************************************)
ManagerApply(p, c, m, nm, store) ==
  /\ mgr' = [mgr EXCEPT ![p] = m]
  /\ names' = [names EXCEPT ![p] = nm]
  /\ disk' = [disk EXCEPT ![p] = store]
  /\ mgrLast' = c
  /\ UNCHANGED <<sessVars, kbVars, clientLast, codecVars, lockVars, pagerVars, svcVars>>

\* the ULIDs a call makes: one when the name was not in the index
Made(p, them) == IF MapHas(names[p], them) THEN 0 ELSE 1

\* New(them) and, when it returned a session, Put of that session unless
\* the caller drops it
DoNew(p) ==
  \E them \in Parties, now \in {Min(Times)}, fetched \in BOOLEAN, stored \in BOOLEAN :
    /\ mgr[p].open
    /\ mgr[p].made + Made(p, them) <= MaxMade
    /\ LET r == managerNew(names[p], p, them, mgr[p].made + 1, now, fetched)
           m == [mgr[p] EXCEPT !.made = mgr[p].made + Made(p, them)]
       IN IF r.err
          THEN ManagerApply(p, [ManagerCall("New", p, them) EXCEPT !.res = "error"],
                            m, r.names, disk[p])
          ELSE IF stored
          THEN ManagerApply(p, ManagerCall("Put", p, them),
                            [m EXCEPT !.put = mgr[p].put \cup {them}],
                            r.names, Put(disk[p], p, r.s[1]))
          ELSE ManagerApply(p, ManagerCall("New", p, them), m, r.names, disk[p])

\* Get(ByName(them))
DoGet(p) ==
  \E them \in Parties, now \in {Min(Times)} :
    /\ mgr[p].open
    /\ mgr[p].made + Made(p, them) <= MaxMade
    /\ LET nm == ByName(names[p], them, mgr[p].made + 1, now)
           g == Get(disk[p], p, nm[them])
       IN ManagerApply(p, [ManagerCall("Get", p, them) EXCEPT
                             !.res = IF g.err THEN "error" ELSE "ok", !.got = g.s],
                       [mgr[p] EXCEPT !.made = mgr[p].made + Made(p, them)], nm, disk[p])

\* Delete of the session Get(ByName(them)) returned
DoDelete(p) ==
  \E them \in DOMAIN names[p] :
    /\ mgr[p].open
    /\ ~Get(disk[p], p, names[p][them]).err
    /\ LET s == Get(disk[p], p, names[p][them]).s[1]
       IN ManagerApply(p, [ManagerCall("Delete", p, them) EXCEPT !.got = <<s>>],
                       [mgr[p] EXCEPT !.put = mgr[p].put \ {s.Name}],
                       smDelete(names[p], s), Delete(disk[p], p, s))

DoSetPosition(p) ==
  \E pos \in Positions :
    /\ mgr[p].open
    /\ ManagerApply(p, ManagerCall("SetPosition", p, p), [mgr[p] EXCEPT !.pos = pos],
                    names[p], disk[p])

\* Close: the index file is written and the manager is dropped
DoManagerClose(p) ==
  /\ mgr[p].open
  /\ mgr[p].closes < MaxCloses
  /\ ManagerApply(p, ManagerCall("Close", p, p),
                  [mgr[p] EXCEPT !.open = FALSE, !.closes = mgr[p].closes + 1,
                                 !.file = <<smClose([pos |-> mgr[p].pos,
                                                     sessions |-> names[p]])>>,
                                 !.listed = Sessions(names[p]),
                                 !.kept = mgr[p].put],
                  EmptyMap, disk[p])

\* NewSessionManager on the directory of a closed manager
DoOpen(p) ==
  /\ ~mgr[p].open
  /\ LET r == NewSessionManager(mgr[p].file)
     IN ManagerApply(p, [ManagerCall("Open", p, p) EXCEPT
                           !.res = IF r.err THEN "error" ELSE "ok"],
                     [mgr[p] EXCEPT !.open = TRUE, !.pos = r.sm.pos],
                     r.sm.sessions, disk[p])

NextManager ==
  \E p \in Owners :
    \/ DoNew(p)
    \/ DoGet(p)
    \/ DoDelete(p)
    \/ DoSetPosition(p)
    \/ DoManagerClose(p)
    \/ DoOpen(p)

SpecManager == Init /\ [][NextManager]_vars

(***************************************************************************)
(* The pager taken by itself: one call of PagerBox, or of ReadLog over a   *)
(* stream, with small arguments of either sign.                            *)
(***************************************************************************)
PagerApply(c) ==
  /\ pager.op = "init"
  /\ pager' = c
  /\ UNCHANGED <<sessVars, kbVars, clientVars, codecVars, lockVars, mgrVars, svcVars>>

DoPagerBox ==
  \E first \in 1..MaxLog, lst \in 1..MaxLog, pos \in -MaxPage..MaxPage,
     n \in -MaxPage..MaxPage :
    /\ first <= lst
    /\ PagerApply([PagerCall("PagerBox", first, lst, pos, n) EXCEPT
                     !.start = PagerBox(first, lst, pos, n).start,
                     !.count = PagerBox(first, lst, pos, n).count])

DoReadLog ==
  \E len \in 0..MaxLog, after \in -MaxPage..MaxPage, n \in -MaxPage..MaxPage :
    PagerApply([PagerCall("ReadLog", 1, len, after, n) EXCEPT
                  !.start = PagerBox(1, len, after, n).start,
                  !.count = PagerBox(1, len, after, n).count,
                  !.res = ReadLog(len, after, n).res,
                  !.lis = ReadLog(len, after, n).lis])

NextPager ==
  \/ DoPagerBox
  \/ DoReadLog

SpecPager == Init /\ [][NextPager]_vars

(***************************************************************************)
(* The goroutines of the interactive service.  Nothing orders the On calls *)
(* of Interactive and the dispatches of the driver's goroutine: a dispatch *)
(* that reads the map while an On call writes it sees the map before or    *)
(* after the write, or the runtime aborts the process.                     *)
(***************************************************************************)
OnStart ==
  /\ ~svc.fatal /\ ~svc.writing /\ svc.at <= Len(InteractiveOns)
  /\ svc' = [svc EXCEPT !.writing = TRUE]
  /\ UNCHANGED <<sessVars, kbVars, clientVars, codecVars, lockVars, mgrVars, pagerVars>>

OnEnd ==
  /\ ~svc.fatal /\ svc.writing
  /\ svc' = [svc EXCEPT !.on = clientOn(svc.on, InteractiveOns[svc.at]),
                        !.at = svc.at + 1, !.writing = FALSE]
  /\ UNCHANGED <<sessVars, kbVars, clientVars, codecVars, lockVars, mgrVars, pagerVars>>

DriverDispatch ==
  \E t \in DriverEvents, o \in {"before", "after", "fatal"} :
    /\ ~svc.fatal /\ svc.dispatches < MaxDispatch
    /\ o = "before" \/ svc.writing
    /\ svc' = [svc EXCEPT
                 !.dispatches = svc.dispatches + 1,
                 !.fatal = (o = "fatal"),
                 !.read = <<[by |-> "Run", type |-> t,
                             seen |-> IF o = "after"
                                      THEN dispatch(clientOn(svc.on, InteractiveOns[svc.at]), t)
                                      ELSE dispatch(svc.on, t),
                             regs |-> svc.at - 1, overlap |-> svc.writing]>>]
    /\ UNCHANGED <<sessVars, kbVars, clientVars, codecVars, lockVars, mgrVars, pagerVars>>

LoopDispatch ==
  \E t \in LoopEvents :
    /\ ~svc.fatal /\ svc.dispatches < MaxDispatch
    /\ svc.at > Len(InteractiveOns)
    /\ svc' = [svc EXCEPT
                 !.dispatches = svc.dispatches + 1,
                 !.read = <<[by |-> "Interactive", type |-> t, seen |-> dispatch(svc.on, t),
                             regs |-> svc.at - 1, overlap |-> FALSE]>>]
    /\ UNCHANGED <<sessVars, kbVars, clientVars, codecVars, lockVars, mgrVars, pagerVars>>

NextService ==
  \/ OnStart
  \/ OnEnd
  \/ DriverDispatch
  \/ LoopDispatch

SpecService == Init /\ [][NextService]_vars

(***************************************************************************)
(* Properties.                                                             *)
(***************************************************************************)
\* the states of a session: no SPK and no ratchet; SPK retained; ratchet
Empty(s) == s.doubleRatchet = << >> /\ s.spkPub = 0 /\ s.spkPriv = 0
Pending(s) == s.doubleRatchet = << >> /\ s.spkPriv # 0

\* the latest call was op with the envelope type t as its input
LastIn(ops, t) == last.op \in ops /\ last.idx > 0 /\ wire[last.idx].env.t = t

\* C1: in the ordered exchange, once the offerer has received the Ack, the
\* Receive returned established without error, both sessions are Active and
\* each session's RemoteUUID is the other's LocalUUID.
C1_HandshakeEstablishes ==
  /\ LastIn({"Acknowledge"}, sessOffer) =>
       last.res = "ok" /\ last.out # << >> /\ Active(sess[last.who])
  /\ LastIn({"Receive"}, sessAck) => last.res = "ok" /\ last.isEstablished
  /\ \A p \in Parties :
       (Len(wire) >= 1 /\ wire[1].from = p /\ rd[p] >= 1) =>
         /\ Active(sess[p])
         /\ Active(sess[Other(p)])
         /\ sess[p].RemoteUUID = sess[Other(p)].LocalUUID
         /\ sess[Other(p)].RemoteUUID = sess[p].LocalUUID

C1_Witness ==
  /\ LastIn({"Receive"}, sessAck)
  /\ last.who = "alice" /\ last.res = "ok" /\ last.isEstablished
  /\ Pending(last.pre)
  /\ Active(sess["alice"]) /\ Active(sess["bob"])
  /\ sess["alice"].RemoteUUID = UUIDOf("bob")

\* C2: an Ack received by an Active session, and a Data received by a session
\* that is not Active, return an error and leave the session as it was.
C2_WrongEnvelopeRejected ==
  /\ (LastIn({"Receive"}, sessAck) /\ Active(last.pre)) =>
       last.res = "error" /\ sess[last.who] = last.pre
  /\ (LastIn({"Receive"}, sessData) /\ ~Active(last.pre)) =>
       last.res = "error" /\ sess[last.who] = last.pre

C2_Witness ==
  /\ LastIn({"Receive"}, sessData)
  /\ Pending(last.pre)
  /\ last.res = "error"
  /\ \E q \in Parties : Active(sess[q])

\* C3 (as claimed): an Offer passed to Receive or Acknowledge on a session
\* that is Pending or Active returns an error and leaves the session as it
\* was.
C3_OfferOnlyFromEmpty ==
  (LastIn({"Receive", "Acknowledge"}, sessOffer) /\ (Pending(last.pre) \/ Active(last.pre))) =>
    last.res = "error" /\ sess[last.who] = last.pre

\* C4 (as claimed): Offer and OfferSealed on a session that is Pending or
\* Active return an error, produce no envelope and leave the session as it
\* was.
C4_OfferOnlyLegalFromEmpty ==
  (last.op \in {"Offer", "OfferSealed"} /\ (Pending(last.pre) \/ Active(last.pre))) =>
    last.res = "error" /\ last.out = << >> /\ sess[last.who] = last.pre

\* C5: Send on a session without a Double Ratchet returns an error, produces
\* no envelope and leaves the session as it was.
C5_SendOnlyWhenActive ==
  (last.op = "Send" /\ ~Active(last.pre)) =>
    last.res = "error" /\ last.out = << >> /\ sess[last.who] = last.pre

C5_Witness ==
  last.op = "Send" /\ Pending(last.pre) /\ last.res = "error" /\ Len(wire) > 0

\* C6: in the ordered exchange every Data envelope is received without
\* error, with exactly the plaintext it was made from, and with neither
\* isEstablished nor isClosed set.
C6_Bidirectional ==
  LastIn({"Receive"}, sessData) =>
    /\ last.res = "ok"
    /\ last.plaintext = wire[last.idx].pt
    /\ ~last.isEstablished
    /\ ~last.isClosed

C6_Witness ==
  /\ LastIn({"Receive"}, sessData)
  /\ last.res = "ok"
  /\ last.plaintext = wire[last.idx].pt
  /\ \A p \in Parties : rd[p] >= 2

\* C7: Close on a Pending or Active session clears the SPK, drops the Double
\* Ratchet and returns a "!RAT!4" envelope whose payload is a 16-byte UUID
\* followed by the byte 0xff, 17 bytes in all.
C7_CloseResetsAndEmits ==
  (last.op = "Close" /\ (Pending(last.pre) \/ Active(last.pre))) =>
    /\ last.res = "ok"
    /\ sess[last.who].spkPub = 0 /\ sess[last.who].spkPriv = 0
    /\ ~Active(sess[last.who])
    /\ last.out # << >>
    /\ last.out[1].prefix = "!RAT!" /\ last.out[1].t = 4
    /\ Len(last.out[1].body.uuid) = 16
    /\ last.out[1].body.payload = <<255>>
    /\ Len(last.out[1].body.uuid \o last.out[1].body.payload) = 17

C7_Witness ==
  /\ last.op = "Close" /\ Pending(last.pre)
  /\ last.res = "ok"
  /\ Empty(sess[last.who])
  /\ last.out[1].body.uuid \o last.out[1].body.payload = [i \in 1..17 |-> IF i = 17 THEN 255 ELSE 0]

\* C8 (as claimed): a Close envelope received in any state returns isClosed
\* without error and leaves the session Empty.
C8_ReceiveCloseEmpties ==
  LastIn({"Receive"}, sessClose) =>
    last.res = "ok" /\ last.isClosed /\ Empty(sess[last.who]) /\ ~Active(sess[last.who])

\* C8 (amended): a Close envelope received in any state returns isClosed
\* without error and leaves the session exactly as it was; closing the
\* session is left to the caller.
C8_ReceiveCloseSignalsOnly ==
  LastIn({"Receive"}, sessClose) =>
    /\ last.res = "ok" /\ last.isClosed /\ ~last.isEstablished
    /\ last.plaintext = << >>
    /\ sess[last.who] = last.pre

C8_Witness ==
  /\ LastIn({"Receive"}, sessClose)
  /\ last.res = "ok" /\ last.isClosed
  /\ Active(last.pre) /\ Active(sess[last.who])

\* C9: the second of two Close envelopes received in a row returns isClosed
\* without error and leaves the session as the first one left it.
C9_CloseIdempotent ==
  (LastIn({"Receive"}, sessClose) /\ last.closes >= 2) =>
    last.res = "ok" /\ last.isClosed /\ sess[last.who] = last.pre

C9_Witness ==
  /\ LastIn({"Receive"}, sessClose) /\ last.closes >= 2
  /\ last.res = "ok" /\ last.isClosed
  /\ Active(last.pre)

\* C10 (as claimed): a session that is Empty, be it freshly configured or
\* closed after a completed handshake, starts a new handshake: Offer returns
\* an Offer envelope and retains an SPK, and Acknowledge of an Offer of the
\* verified peer returns an Ack and activates the session.
C10_ReusableAfterClose ==
  /\ (last.op = "Offer" /\ Empty(last.pre)) =>
       /\ last.res = "ok"
       /\ last.out # << >> /\ last.out[1].t = sessOffer
       /\ Pending(sess[last.who])
  /\ (/\ LastIn({"Acknowledge"}, sessOffer)
      /\ Empty(last.pre)
      /\ wire[last.idx].from = Other(last.who)) =>
       /\ last.res = "ok"
       /\ last.out # << >> /\ last.out[1].t = sessAck
       /\ Active(sess[last.who])

\* C11 (as claimed): whenever a session is Active, its IdentityKey, spkPub
\* and spkPriv are all nil.
C11_ActiveHasNoKeys ==
  last.res # "panic" =>
    \A p \in Parties :
      Active(sess[p]) =>
        sess[p].IdentityKey = 0 /\ sess[p].spkPub = 0 /\ sess[p].spkPriv = 0

\* the identity key carried by the Offer or Ack the latest call was given
LastIdKey == wire[last.idx].env.body.idKey

\* C12: when VerifyPeer refuses the identity key of an inbound Offer or Ack,
\* Acknowledge and Receive return an error, produce nothing and leave every
\* field of the session as it was.
C12_BadPeerRejected ==
  ((LastIn({"Receive", "Acknowledge"}, sessOffer) \/ LastIn({"Receive"}, sessAck))
     /\ ~VerifyPeer(last.pre, LastIdKey)) =>
    /\ last.res = "error"
    /\ last.out = << >> /\ ~last.isEstablished
    /\ sess[last.who] = last.pre

C12_Witness ==
  /\ LastIn({"Acknowledge"}, sessOffer)
  /\ ~VerifyPeer(last.pre, LastIdKey)
  /\ Pending(last.pre)
  /\ last.res = "error"
  /\ sess[last.who] = last.pre

\* the initial ciphertext of the Ack does not decrypt under the session key
\* that session s agrees on
AckCipherFails(s, ack) ==
  LET x == ReceiveInitialMessage(s.IdentityKey, ack.idKey, s.spkPriv, ack.eKey)
      dr == CreatePassive(x.sessKey, x.associatedData, s.spkPub, s.spkPriv)
  IN ~Decrypt(dr, ack.cipher, 0).ok

\* C13 (as claimed): when a Pending session receives an Ack of the verified
\* peer whose initial ciphertext fails to decrypt, Receive returns an error
\* and the session keeps no Double Ratchet: it is not Active afterwards.
C13_FailedAckDiscards ==
  (/\ LastIn({"Receive"}, sessAck)
   /\ Pending(last.pre) /\ last.pre.IdentityKey # 0
   /\ VerifyPeer(last.pre, LastIdKey)
   /\ AckCipherFails(last.pre, wire[last.idx].env.body)) =>
    /\ last.res = "error"
    /\ sess[last.who].doubleRatchet = << >>
    /\ ~Active(sess[last.who])

\* C18 (as claimed): the UUID field of every Data envelope produced by Send
\* and of every Close envelope produced by Close on a Pending or Active
\* session is the LocalUUID of the recipient's session.
C18_CarriesRecipientUUID ==
  (/\ last.op \in {"Send", "Close"}
   /\ Pending(last.pre) \/ Active(last.pre)
   /\ last.res = "ok" /\ last.out # << >>) =>
    last.out[1].body.uuid = sess[Other(last.who)].LocalUUID

\* C15 (as claimed): find removes the key it returns, so a second find for
\* the same public and number right after a successful one fails.
C15_FindRemoves ==
  (kbLast.op = "find" /\ kbLast.ok) => ~find(keyBuf, kbLast.dhPub, kbLast.msgNo).ok

\* the chain an insert of a new public discards: the oldest-inserted one when
\* the buffer is full, none otherwise
Evicted(b) == IF Cardinality(PubsOf(b)) = maxSkipChains THEN {Min(PubsOf(b))} ELSE {}

\* C16: the buffer never holds more than 8 chains; an insert under a public
\* not held discards the oldest-inserted chain with all its keys if 8 chains
\* are held and no chain otherwise, and every key of the other chains is
\* found as before.
C16_RingOfEightChains ==
  /\ Cardinality(PubsOf(keyBuf)) <= 8
  /\ Cardinality({i \in 1..maxSkipChains : keyBuf.slots[i] # << >>}) = Cardinality(PubsOf(keyBuf))
  /\ (kbLast.op = "insert" /\ kbLast.dhPub \notin PubsOf(kbLast.pre)) =>
       /\ PubsOf(keyBuf) = (PubsOf(kbLast.pre) \ Evicted(kbLast.pre)) \cup {kbLast.dhPub}
       /\ \A q \in Evicted(kbLast.pre) : \A n \in 0..MaxChainKeys : ~find(keyBuf, q, n).ok
       /\ \A q \in PubsOf(kbLast.pre) \ Evicted(kbLast.pre) :
            \A n \in 0..MaxChainKeys : find(keyBuf, q, n) = find(kbLast.pre, q, n)
       /\ find(keyBuf, kbLast.dhPub, kbLast.msgNo) = [ok |-> TRUE, msgKey |-> kbLast.msgKey]

C16_Witness ==
  /\ kbLast.op = "insert"
  /\ Cardinality(PubsOf(kbLast.pre)) = 8
  /\ kbLast.dhPub \notin PubsOf(kbLast.pre)
  /\ find(kbLast.pre, FirstPub, 1).ok
  /\ ~find(keyBuf, FirstPub, 1).ok /\ ~find(keyBuf, FirstPub, 0).ok
  /\ Cardinality(PubsOf(keyBuf)) = 8

\* C17 (as claimed): no chain of the buffer holds more than 32 message keys
\* and the buffer holds no more than 8 x 32 = 256 keys in all.
C17_KeysBounded ==
  /\ \A q \in PubsOf(keyBuf) : Cardinality(NosOf(keyBuf, q)) <= 32
  /\ Cardinality({<<q, n>> \in PubsOf(keyBuf) \X (0..MaxChainKeys) : find(keyBuf, q, n).ok}) <= 256

\* C14: when the input of a Data envelope for a stored Active session fails,
\* the session the client worked on is still Active, nothing is stored, and
\* the store holds the session exactly as it was read, so that Data can
\* still be put in afterwards.
C14_FailedDataKeepsSession ==
  (/\ clientLast.op = "Input" /\ wire[clientLast.idx].env.t = sessData
   /\ clientLast.loaded # << >> /\ Active(clientLast.loaded[1].Session)
   /\ clientLast.res = "error") =>
    /\ Active(clientLast.after[1].Session)
    /\ clientLast.put = << >>
    /\ disk[clientLast.who] = clientLast.diskPre
    /\ Get(disk[clientLast.who], clientLast.who, clientLast.loaded[1].Session.LocalUUID)
         = [err |-> FALSE, s |-> clientLast.loaded]

C14_Witness ==
  /\ clientLast.op = "Input" /\ wire[clientLast.idx].env.t = sessData
  /\ clientLast.who \in clientLast.failedData
  /\ clientLast.res = "ok"
  /\ clientLast.plaintext = Hello

\* the private keys written in a Session record
PrivatesIn(o) ==
  {o.SpkPriv}
    \cup (IF Len(o.DoubleRachet) > 0 THEN {o.DoubleRachet[1].Dhr.DhPriv} ELSE {})
    \cup (IF "IdentityKey" \in DOMAIN o THEN {o.IdentityKey} ELSE {})

\* C19: no Session record that a client stores holds the identity private
\* key of its owner, whether the session is Pending or Active.
C19_RecordHasNoIdentityKey ==
  /\ \A p \in Parties : \A h \in DOMAIN disk[p] :
       IdKey(p) \notin PrivatesIn(disk[p][h].Session)
  /\ clientLast.put # << >> =>
       IdKey(clientLast.who) \notin PrivatesIn(SessionMarshalBinary(clientLast.put[1].Session))

\* a party has stored its Active session while its peer's store holds the
\* record of a Pending session, which Get completes with the identity key
C19_Witness ==
  /\ clientLast.put # << >>
  /\ Active(clientLast.put[1].Session)
  /\ \E h \in DOMAIN disk[clientLast.who] :
       Len(disk[clientLast.who][h].Session.DoubleRachet) > 0
  /\ \E h \in DOMAIN disk[Other(clientLast.who)] :
       /\ Len(disk[Other(clientLast.who)][h].Session.DoubleRachet) = 0
       /\ disk[Other(clientLast.who)][h].Session.SpkPriv # 0
       /\ MapHas(names[Other(clientLast.who)], clientLast.who)
       /\ Get(disk[Other(clientLast.who)], Other(clientLast.who),
              names[Other(clientLast.who)][clientLast.who]).s # << >>
       /\ Get(disk[Other(clientLast.who)], Other(clientLast.who),
              names[Other(clientLast.who)][clientLast.who]).s[1].Session.IdentityKey =
            IdKey(Other(clientLast.who))

C21_KeyBufferRoundTrip ==
  \A q \in FirstPub..(FirstPub + MaxKbPubs) : \A n \in 0..MaxChainKeys :
    find(kbUnmarshalBinary(kbMarshalBinary(keyBuf)), q, n) = find(keyBuf, q, n)

\* the Double Ratchet of a record, read into a fresh DoubleRatchet
DrRoundTrip(dr) == drUnmarshalBinary(drMarshalBinary(dr))

\* C22 (as claimed): the Double Ratchet read back from its serialized form
\* has the associated data, the two chain keys, every field of the DH
\* ratchet and the counters sendNo, recvNo and prevSendNo of the original.
C22_RatchetRoundTrip ==
  \A p \in Parties : Active(sess[p]) =>
    LET dr == sess[p].doubleRatchet[1]
        rt == DrRoundTrip(dr)
    IN /\ rt.associatedData = dr.associatedData
       /\ rt.chainKeySend = dr.chainKeySend /\ rt.chainKeyRecv = dr.chainKeyRecv
       /\ rt.peerDhPub = dr.peerDhPub
       /\ rt.dhr = dr.dhr
       /\ rt.sendNo = dr.sendNo /\ rt.recvNo = dr.recvNo
       /\ rt.prevSendNo = dr.prevSendNo

BodyOf(s) == SubSeq(s, Len(PrefixChars) + 2, Len(s) - Len(SuffixChars))
BodyChars(s) == SelectSeq(BodyOf(s), NotNewline)

\* the number of payload bytes a body of unpadded base64url stands for
PayloadLen(s) == DecodedLen(Len(BodyChars(s)))

\* the text s is one the parser has to refuse: no exact prefix or suffix, a
\* type digit other than 1..5, a body that is not unpadded base64url, or a
\* payload too short for its type
BadText(s) ==
  \/ ~HasPrefix(s, PrefixChars) \/ ~HasSuffix(s, SuffixChars)
  \/ Len(s) < Len(PrefixChars) + 1 + Len(SuffixChars)
  \/ s[Len(PrefixChars) + 1] \notin {DigitChar(d) : d \in 1..5}
  \/ \E i \in 1..Len(BodyChars(s)) : b64Val(BodyChars(s)[i]) < 0
  \/ Len(BodyChars(s)) % 4 = 1
  \/ s[Len(PrefixChars) + 1] = DigitChar(sessOffer) /\ PayloadLen(s) < 144
  \/ s[Len(PrefixChars) + 1] = DigitChar(sessAck) /\ PayloadLen(s) <= 80
  \/ s[Len(PrefixChars) + 1] = DigitChar(sessData) /\ PayloadLen(s) <= 16
  \/ /\ s[Len(PrefixChars) + 1] = DigitChar(sessClose)
     /\ \/ PayloadLen(s) <= 16
        \/ SubSeq(DecodeString(BodyOf(s)).data, 17, PayloadLen(s)) # <<255>>

Holders == {c \in Callers : callers[c].pc \in {"fn", "fnWrite", "defer"}}

\* C26: at any time at most one caller of Use is in fn with the guarded
\* value; the value is in the channel exactly when no caller has it, and
\* no increment of a caller is lost.
C26_OneHolder ==
  /\ Cardinality(Holders) <= 1
  /\ (locker.state = << >>) <=> (Holders # {})
  /\ Len(locker.state) <= 1
  /\ locker.Counter = locker.ran

C26_Witness ==
  /\ callers["g1"].pc = "fnWrite"
  /\ callers["g2"].pc = "select" /\ callers["g3"].pc = "select"
  /\ locker.Counter = 2

\* C27: a Use called with a context that is already cancelled returns the
\* error of the context without calling fn and without touching the value;
\* a caller that gets the value later finds the counter as the last fn that
\* ran left it.
C27_CancelledUseIsRefused ==
  /\ \A c \in Callers : callers[c].wasDone =>
       /\ callers[c].pc \in {"check", "idle"}
       /\ ~callers[c].ran /\ callers[c].held = << >>
       /\ callers[c].pc = "idle" => callers[c].ret = "ctxErr"
  /\ \A c \in Callers : callers[c].pc = "fnWrite" => callers[c].tmp = locker.ran

C27_Witness ==
  /\ callers["g1"].wasDone /\ callers["g1"].pc = "idle" /\ callers["g1"].ret = "ctxErr"
  /\ callers["g2"].pc = "fnWrite" /\ callers["g2"].ctx = "background"
  /\ callers["g2"].tmp = 1 /\ locker.ran = 1

\* C28: a session manager keeps its index across Close and reopen: a manager
\* newly opened on the directory lists exactly the names the closed one
\* listed, Get(ByName(name)) of a name whose session was stored returns a
\* session of that name, and after Delete of that session Sessions no longer
\* lists the name.
C28_IndexSurvivesReopen ==
  \A p \in Owners :
    /\ (mgrLast.op = "Open" /\ mgrLast.who = p) =>
         /\ mgrLast.res = "ok"
         /\ Sessions(names[p]) = mgr[p].listed
    /\ (mgrLast.op = "Get" /\ mgrLast.who = p /\ mgrLast.name \in mgr[p].put) =>
         /\ mgrLast.res = "ok"
         /\ mgrLast.got[1].Name = mgrLast.name
    /\ (mgrLast.op = "Delete" /\ mgrLast.who = p) =>
         /\ mgrLast.name \notin {pair.Name : pair \in Sessions(names[p])}
         /\ Get(disk[p], p, mgrLast.got[1].Session.LocalUUID).err

\* a session stored before the one Close is got by name from the reopened
\* manager, which lists that name and no other
C28_Witness ==
  /\ mgrLast.op = "Get" /\ mgrLast.res = "ok"
  /\ mgr[mgrLast.who].closes = 1 /\ mgr[mgrLast.who].open
  /\ mgrLast.name \in mgr[mgrLast.who].kept
  /\ mgrLast.got[1].Name = mgrLast.name
  /\ {pair.Name : pair \in Sessions(names[mgrLast.who])} = {mgrLast.name}
  /\ Sessions(names[mgrLast.who]) = mgr[mgrLast.who].listed

\* the session the party p has stored for the peer n, none when the index
\* has no such name or the file is missing
Stored(p, n) ==
  IF MapHas(names[p], n) THEN Get(disk[p], p, names[p][n]).s ELSE << >>

\* C29: Chat reports whether it established the session.  With no session
\* stored for the peer it returns false and, when it succeeds, has posted a
\* fresh sealed Offer, stored the Pending session and dispatched OnOfferSent;
\* with a stored session that holds a pending Ack it posts that Ack, clears
\* it in the stored session, dispatches OnSessionStarted and returns true.
C29_ChatReportsEstablished ==
  clientLast.op = "Chat" =>
    /\ clientLast.loaded = << >> =>
         /\ ~clientLast.isEstablished
         /\ clientLast.res = "ok" =>
              /\ clientLast.posted # << >>
              /\ wire[Len(wire)].env = clientLast.posted[1]
              /\ wire[Len(wire)].env.t = sessSealed
              /\ readMsg(clientLast.posted[1], Other(clientLast.who)).x.t = sessOffer
              /\ Stored(clientLast.who, Other(clientLast.who)) # << >>
              /\ Pending(Stored(clientLast.who, Other(clientLast.who))[1].Session)
              /\ clientLast.events =
                   <<On("OnOfferSent",
                        Stored(clientLast.who, Other(clientLast.who))[1].Session.LocalUUID,
                        Other(clientLast.who))>>
    /\ (clientLast.loaded # << >> /\ clientLast.loaded[1].PendingAck # << >>) =>
         /\ clientLast.res = "ok"
         /\ clientLast.isEstablished
         /\ clientLast.posted = clientLast.loaded[1].PendingAck
         /\ wire[Len(wire)].env = clientLast.posted[1]
         /\ Stored(clientLast.who, Other(clientLast.who)) # << >>
         /\ Stored(clientLast.who, Other(clientLast.who))[1].PendingAck = << >>
         /\ clientLast.events =
              <<On("OnSessionStarted", clientLast.loaded[1].Session.LocalUUID,
                   Other(clientLast.who))>>

\* a Chat posts the Ack its stored session held for the Offer of the peer's
\* Chat, and returns true
C29_Witness ==
  /\ clientLast.op = "Chat" /\ clientLast.isEstablished
  /\ clientLast.loaded # << >> /\ clientLast.loaded[1].PendingAck # << >>
  /\ Len(wire) = 2
  /\ wire[1].from = Other(clientLast.who) /\ wire[1].env.t = sessSealed
  /\ wire[2].env.t = sessAck
  /\ clientLast.events # << >> /\ clientLast.events[1].type = "OnSessionStarted"

\* the last call was the Input of a Close envelope of the peer, for which the
\* party held an Active session of that peer
ClosedByPeer ==
  /\ clientLast.op = "Input"
  /\ wire[clientLast.idx].from = Other(clientLast.who)
  /\ wire[clientLast.idx].env.t = sessClose
  /\ clientLast.loaded # << >>
  /\ Active(clientLast.loaded[1].Session)
  /\ clientLast.loaded[1].Name = Other(clientLast.who)

\* C30: when the Close envelope one side's Close posted is delivered by Input
\* to the other side, which holds an Active session of that peer, the
\* receiving client deletes its stored session (Get fails, Sessions does not
\* list the peer) and dispatches OnSessionClosed naming the closing peer.
C30_InputOfCloseDeletes ==
  ClosedByPeer =>
    /\ clientLast.res = "ok" /\ clientLast.isClosed
    /\ Get(disk[clientLast.who], clientLast.who,
           clientLast.loaded[1].Session.LocalUUID).err
    /\ Other(clientLast.who) \notin {pair.Name : pair \in Sessions(names[clientLast.who])}
    /\ clientLast.events # << >>
    /\ clientLast.events[Len(clientLast.events)] =
         On("OnSessionClosed", clientLast.loaded[1].Session.LocalUUID,
            Other(clientLast.who))

\* the session was stored until the call, and the envelope came from the
\* Close of a peer after the handshake
C30_Witness ==
  /\ ClosedByPeer
  /\ ~Get(clientLast.diskPre, clientLast.who, clientLast.loaded[1].Session.LocalUUID).err
  /\ Get(disk[clientLast.who], clientLast.who, clientLast.loaded[1].Session.LocalUUID).err
  /\ \E i \in 1..Len(wire) : wire[i].from = clientLast.who /\ wire[i].env.t = sessAck
  /\ clientLast.events = <<On("OnSessionClosed", clientLast.loaded[1].Session.LocalUUID,
                              Other(clientLast.who))>>

\* the times a UUID is stamped with: the times of the model, the first
\* millisecond and later ones that fill one, two, three and four bytes
StampTimes == Times \cup {0, 255, 65535, 16777215, 2147483647}

\* the six bytes of a time below 2^32, the most significant first
TimeBytes(now) ==
  [i \in 1..ULIDTimeLen |->
     IF ULIDTimeLen - i >= 4 THEN 0 ELSE (now \div 256^(ULIDTimeLen - i)) % 256]

\* C31: stamping the outbound UUID with the time writes the 6 timestamp bytes
\* and leaves the other 10 bytes, which sessionhash uses, as they were; so for
\* every time the recipient's Get on the UUID of a Data envelope gives what
\* Get on the unstamped UUID gives, the stored session of that LocalUUID.
C31_StampKeepsLookup ==
  (clientLast.op = "Send" /\ clientLast.res = "ok") =>
    /\ clientLast.posted[1].t = sessData
    /\ Entropy(clientLast.posted[1].body.uuid) =
         Entropy(clientLast.loaded[1].Session.RemoteUUID)
    /\ \A now \in StampTimes :
         /\ Len(encTime(clientLast.loaded[1].Session.RemoteUUID, now)) = UUIDLen
         /\ SubSeq(encTime(clientLast.loaded[1].Session.RemoteUUID, now), 1, ULIDTimeLen) =
              TimeBytes(now)
         /\ \A i \in (ULIDTimeLen + 1)..UUIDLen :
              encTime(clientLast.loaded[1].Session.RemoteUUID, now)[i] =
                toULID(clientLast.loaded[1].Session.RemoteUUID)[i]
         /\ \A p \in Parties :
              /\ sessionhash(p, encTime(clientLast.loaded[1].Session.RemoteUUID, now)) =
                   sessionhash(p, clientLast.loaded[1].Session.RemoteUUID)
              /\ Get(disk[p], p, encTime(clientLast.loaded[1].Session.RemoteUUID, now)) =
                   Get(disk[p], p, clientLast.loaded[1].Session.RemoteUUID)
              /\ (Stored(p, Other(p)) # << >> /\
                  Stored(p, Other(p))[1].Session.LocalUUID =
                    clientLast.loaded[1].Session.RemoteUUID) =>
                   Get(disk[p], p, encTime(clientLast.loaded[1].Session.RemoteUUID, now)).s =
                     Stored(p, Other(p))

\* a Data envelope was posted whose UUID differs from the recipient's
\* LocalUUID in its timestamp, and the recipient's Get on it finds the
\* session of that LocalUUID
C31_Witness ==
  /\ clientLast.op = "Send" /\ clientLast.res = "ok"
  /\ Stored(Other(clientLast.who), clientLast.who) # << >>
  /\ Stored(Other(clientLast.who), clientLast.who)[1].Session.LocalUUID =
       clientLast.loaded[1].Session.RemoteUUID
  /\ clientLast.posted[1].body.uuid # clientLast.loaded[1].Session.RemoteUUID
  /\ Get(disk[Other(clientLast.who)], Other(clientLast.who),
         clientLast.posted[1].body.uuid).s = Stored(Other(clientLast.who), clientLast.who)

\* C32: the locker never loses or duplicates its value: either it is in the
\* channel or exactly one caller is in fn with it, never both; a caller whose
\* Use ended on the cancelled context, also after waiting in the select, has
\* not taken the value; a caller whose fn returned an error has given it
\* back; so a caller waiting with no one in fn finds the value in the channel.
C32_ValueKept ==
  /\ Len(locker.state) + Cardinality(Holders) = 1
  /\ \A c \in Callers : (callers[c].held # << >>) <=> (c \in Holders)
  /\ \A c \in Callers : callers[c].held # << >> => callers[c].held = New.state
  /\ locker.state # << >> => locker.state = New.state
  /\ \A c \in Callers : (callers[c].pc = "idle" /\ callers[c].ret = "ctxErr") =>
       ~callers[c].ran /\ callers[c].held = << >>
  /\ \A c \in Callers : (callers[c].pc = "idle" /\ callers[c].ret = "fnErr") =>
       callers[c].ran /\ callers[c].held = << >>
  /\ \A c \in Callers : (callers[c].pc = "select" /\ Holders = {}) =>
       locker.state # << >>

\* one caller's fn returned an error, one caller waited in the select and left
\* on the cancelled context, and a third with a live context is in fn
C32_Witness ==
  /\ callers["g1"].pc = "idle" /\ callers["g1"].ret = "fnErr"
  /\ callers["g2"].pc = "idle" /\ callers["g2"].ret = "ctxErr" /\ ~callers["g2"].wasDone
  /\ callers["g3"].pc = "fn" /\ callers["g3"].ctx = "background"
  /\ locker.cancelled

\* C33: whenever PagerBox returns a count that is not zero, the start it
\* returns lies in first..last and so do the |count| positions read from it
\* in the direction of the sign of count.
C33_PagerBoxInRange ==
  (pager.op = "PagerBox" /\ pager.count # 0) =>
    /\ ~ULess(pager.start, pager.first) /\ ~ULess(pager.last, pager.start)
    /\ \A i \in 0..(Abs(pager.count) - 1) :
         /\ ~ULess(IF pager.count > 0 THEN pager.start + i ELSE pager.start - i,
                   pager.first)
         /\ ~ULess(pager.last,
                   IF pager.count > 0 THEN pager.start + i ELSE pager.start - i)

\* C34: a pending Ack is posted at most once.  After a Chat that posted the
\* PendingAck of the stored session, the stored session has no PendingAck; a
\* Chat that finds a stored session with no PendingAck posts nothing and
\* returns false; no Ack envelope is on the wire twice.
C34_AckPostedOnce ==
  /\ (clientLast.op = "Chat" /\ clientLast.res = "ok" /\ clientLast.loaded # << >>
      /\ clientLast.loaded[1].PendingAck # << >>) =>
       /\ Stored(clientLast.who, Other(clientLast.who)) # << >>
       /\ Stored(clientLast.who, Other(clientLast.who))[1].PendingAck = << >>
  /\ (clientLast.op = "Chat" /\ clientLast.loaded # << >>
      /\ clientLast.loaded[1].PendingAck = << >>) =>
       /\ clientLast.posted = << >>
       /\ ~clientLast.isEstablished
  /\ \A i, j \in 1..Len(wire) :
       (i < j /\ wire[i].env.t = sessAck /\ wire[i].from = wire[j].from) =>
         wire[i].env # wire[j].env

\* C35: Sessions lists exactly the peers for which a session is stored (Put
\* and not yet Deleted): while a manager is open the names it lists are the
\* names whose session Get finds, so a Get(ByName(name)) of a peer with no
\* stored session leaves the name unlisted, and the index file Close writes
\* names those peers and no other.
C35_SessionsAreStored ==
  \A p \in Owners :
    /\ mgr[p].open =>
         {pair.Name : pair \in Sessions(names[p])} =
           {n \in Parties : Stored(p, n) # << >>}
    /\ (mgrLast.op = "Get" /\ mgrLast.who = p /\ mgrLast.res = "error") =>
         mgrLast.name \notin {pair.Name : pair \in Sessions(names[p])}
    /\ (mgrLast.op = "Close" /\ mgrLast.who = p) =>
         {it.Name : it \in mgr[p].file[1].Sessions} =
           {pair.Name : pair \in {q \in mgr[p].listed : ~Get(disk[p], p, q.ID).err}}

\* C36: Unseal of a box that the recipient's keypair opens returns a message
\* or an error and never aborts, also when the box holds nothing or starts
\* with a type digit outside 1..5.
C36_UnsealNeverAborts ==
  (codec.op = "unseal" /\ OpenAnonymous(codec.sealed, codec.priv, codec.priv).ok) =>
    /\ codec.back.res \in {"ok", "error"}
    /\ (codec.m # << >> /\ ~container(TypeOf(codec.m[1]))) => codec.back.res = "error"

\* C37: for each completed handshake each side dispatches OnSessionStarted
\* exactly once: a party never dispatches it twice for one session, and a
\* party whose stored session is Active with no Ack left to post (the offerer
\* after the Ack, the responder after the handler of the Offer and the Chat
\* that posted the Ack) has dispatched it once.
C37_StartedOnce ==
  \A p \in Parties :
    /\ clientLast.started[p] <= 1
    /\ (/\ Stored(p, Other(p)) # << >>
        /\ Active(Stored(p, Other(p))[1].Session)
        /\ Stored(p, Other(p))[1].PendingAck = << >>) =>
         clientLast.started[p] = 1

\* C38: handler registration never races with dispatch: every dispatch starts
\* after all the On calls of Interactive have completed, so none reads the
\* handler map while an On call writes it and the runtime never aborts on it.
C38_OnBeforeDispatch ==
  /\ ~svc.fatal
  /\ \A i \in 1..Len(svc.read) :
       /\ svc.read[i].regs = Len(InteractiveOns)
       /\ ~svc.read[i].overlap

\* the slots of the buffer b that hold a chain of the public dhPub
ChainsOf(b, dhPub) ==
  {i \in 1..maxSkipChains : b.slots[i] # << >> /\ b.slots[i][1].dhPub = dhPub}

\* C39: after any sequence of insert calls no two chains of the ring have the
\* same DH public: elementFind gives the one slot of a public that has a
\* chain and none for any other public; an insert under a public that had a
\* chain writes into that chain, which keeps its slot and its other keys, and
\* find reads from it.
C39_OneChainPerPublic ==
  /\ \A dhPub \in FirstPub..(kbNext - 1) :
       /\ Cardinality(ChainsOf(keyBuf, dhPub)) <= 1
       /\ ChainsOf(keyBuf, dhPub) = {elementFind(keyBuf, dhPub)} \ {0}
  /\ kbLast.op = "insert" =>
       /\ find(keyBuf, kbLast.dhPub, kbLast.msgNo) = [ok |-> TRUE, msgKey |-> kbLast.msgKey]
       /\ ChainsOf(kbLast.pre, kbLast.dhPub) # {} =>
            /\ ChainsOf(keyBuf, kbLast.dhPub) = ChainsOf(kbLast.pre, kbLast.dhPub)
            /\ \A n \in NosOf(kbLast.pre, kbLast.dhPub) \ {kbLast.msgNo} :
                 find(keyBuf, kbLast.dhPub, n) = find(kbLast.pre, kbLast.dhPub, n)

\* with the ring full, a key was inserted under a public whose chain had been
\* overwritten, after a second key had been inserted into a chain in place
C39_Witness ==
  /\ kbLast.op = "insert" /\ kbLast.again = MaxAgain
  /\ Cardinality(PubsOf(kbLast.pre)) = maxSkipChains
  /\ kbLast.dhPub \notin PubsOf(kbLast.pre)
  /\ Cardinality(ChainsOf(keyBuf, kbLast.dhPub)) = 1
  /\ \E q \in PubsOf(keyBuf) : Cardinality(NosOf(keyBuf, q)) > 1

====
